---- MODULE Spec2Model ----
(***************************************************************************)
(* Verification model of the Grip personal-finance backend.                *)
(*                                                                         *)
(* Money is kept in paise (Numeric(10, 2) scaled by 100), dates are day    *)
(* ordinals, UUIDs are fresh integers, None is the empty value of the      *)
(* field's type (NoId, NoDate, "" for strings).                            *)
(***************************************************************************)
EXTENDS Integers, Sequences, FiniteSets, TLC

VARIABLES
    transactions,       \* table transactions: set of rows
    merchant_mappings,  \* table merchant_mappings: set of rows
    sub_categories,     \* table sub_categories: set of rows
    categories,         \* table categories: set of rows
    sync_logs,          \* table sync_logs: sequence of rows, index = id
    runs,               \* execute_sync invocations and their local variables
    persisted,          \* history: transactions each invocation has committed
    next_txn_id,        \* uuid4 source for transactions
    now,                \* coarse clock (created_at, start_time, mail arrival)
    time_time,          \* time.time() as read by create_manual_transaction
    response,           \* HTTP status of the last request answered
    request,            \* history: caller and target of the last request
    bills,              \* table bills: set of rows
    credit_cards,       \* table credit_cards: set of rows
    next_id,            \* uuid4 source for bills, cards and categories
    dispatch,           \* the last request through AuthenticationMiddleware
    users,              \* table users: set of rows
    auth_request,       \* history: the last request to the auth router
    utcnow,             \* clock in minutes (token and OTP expiry)
    goals,              \* table goals: set of rows
    safe_to_spend_response, \* the last GET /analytics/safe-to-spend exchange
    holdings,           \* table investment_holdings: set of rows
    snapshots,          \* table investment_snapshots: set of rows
    mapping_rules,      \* table investment_mapping_rules: set of rows
    mapped,             \* history: transactions applied to holdings so far
    imported,           \* history: units_held written by CAMS imports, by snapshot
    sessions,           \* map-transaction requests in flight, each in its session
    reply               \* the last answer to a read request, with its inputs

ledgerVars == <<transactions, merchant_mappings, next_txn_id, time_time>>
taxonomyVars == <<categories, sub_categories>>
syncVars == <<sync_logs, runs, persisted>>
accountVars == <<bills, credit_cards>>

vars == <<transactions, merchant_mappings, sub_categories, categories,
          sync_logs, runs, persisted, next_txn_id, now, time_time, response,
          request, bills, credit_cards, next_id, dispatch, users,
          auth_request, utcnow, goals, safe_to_spend_response, holdings,
          snapshots, mapping_rules, mapped, imported, sessions, reply>>

authVars == <<users, auth_request>>
wealthVars == <<holdings, snapshots, mapping_rules, mapped, imported,
               sessions>>

\* What the finance features never write.
budgetVars == <<goals, safe_to_spend_response, reply>>
apart == <<dispatch, authVars, utcnow, budgetVars>>

\* What the ledger and the ingestion pipeline never write.
outsideLedger == <<accountVars, next_id, apart, wealthVars>>

\* The tables and clocks of the finance features.
finance == <<ledgerVars, taxonomyVars, syncVars, accountVars, next_id, now,
             request, budgetVars, wealthVars>>

----------------------------------------------------------------------------
(* Bounds                                                                  *)

MaxTxns == 2    \* transactions ever created
MaxRuns == 2    \* execute_sync invocations
MaxTime == 1    \* clock ticks
MaxOwned == 2   \* rows ever created by the users of SpecOwn
FirstYear == 2023   \* reference dates run from 1 January of this year
LastYear == 2024    \* to 31 December of this year
MaxClock == 15  \* minutes the clock runs
ClockStep == 5  \* minutes per tick of the clock
MaxHoldings == 1   \* investment holdings ever created
MaxSnapshots == 3  \* investment snapshots ever created
MaxInvested == 200000  \* paise a snapshot or a holding may account for
MaxMappings == 2   \* transactions ever applied to a holding

(* Input domains                                                           *)

Users == {"u1", "u2"}
RunIds == 1..MaxRuns
NoId == 0
NoDate == -1
NoMerchant == ""

\* TransactionStatus
PENDING == "PENDING"
VERIFIED == "VERIFIED"
REJECTED == "REJECTED"

\* The mailbox of each user (u2 has connected none); a message is in the
\* mailbox from its internalDate on.
Mailbox ==
    [u \in Users |->
        IF u = "u1"
        THEN {[id |-> "m1", internalDate |-> 0], [id |-> "m2", internalDate |-> 1]}
        ELSE {}]

\* Results of the LLM extraction (call_brain_api), fallback included.
Extractions ==
    {[amount |-> 25000, merchant_name |-> "AMZN*123", category |-> "Shopping",
      sub_category |-> "Online-Shopping", account_type |-> "SAVINGS",
      transaction_type |-> "DEBIT"],
     [amount |-> 90000, merchant_name |-> NoMerchant, category |-> "Income",
      sub_category |-> "Salary", account_type |-> "SAVINGS",
      transaction_type |-> "CREDIT"],
     [amount |-> 0, merchant_name |-> "UNCATEGORIZED",
      category |-> "Uncategorized", sub_category |-> "Uncategorized",
      account_type |-> "SAVINGS", transaction_type |-> "DEBIT"]}

\* Bodies of VerificationRequest.
VerificationRequests ==
    {[category |-> "Food", sub_category |-> "Dining", merchant_name |-> "Amazon",
      approved |-> TRUE],
     [category |-> "Housing", sub_category |-> "Rent", merchant_name |-> "Amazon Pay",
      approved |-> TRUE],
     [category |-> "Shopping", sub_category |-> "Online-Shopping",
      merchant_name |-> "Amazon", approved |-> FALSE]}

\* Bodies of ManualTransactionCreate (model_dump always carries every field).
ManualInputs ==
    {[amount |-> -50000, merchant_name |-> "Cafe", category |-> "Food",
      sub_category |-> "Dining", account_type |-> "SAVINGS",
      credit_card_id |-> NoId, transaction_date |-> 0, is_surety |-> FALSE]}

\* Seeded system taxonomy (user_id = None).
SystemCategories ==
    {[id |-> 901, name |-> "Shopping", user_id |-> ""],
     [id |-> 902, name |-> "Income", user_id |-> ""],
     [id |-> 903, name |-> "Housing", user_id |-> ""]}

\* Ids of rows created by users (uuid4 never returns a seeded id).
OwnedIds == {100 + i : i \in 1..MaxOwned}

SystemSubCategories ==
    {[id |-> 911, name |-> "Online-Shopping", is_surety |-> FALSE, category_id |-> 901, user_id |-> ""],
     [id |-> 912, name |-> "Salary", is_surety |-> FALSE, category_id |-> 902, user_id |-> ""],
     [id |-> 913, name |-> "Rent", is_surety |-> TRUE, category_id |-> 903, user_id |-> ""]}

----------------------------------------------------------------------------
(* Helpers                                                                 *)

Abs(n) == IF n < 0 THEN -n ELSE n

Min2(a, b) == IF a <= b THEN a ELSE b

\* calendar.monthrange(2024, month)[1]
monthrange == <<31, 29, 31, 30, 31, 30, 31, 31, 30, 31, 30, 31>>

RECURSIVE civil(_, _)
\* The month and day of the date `ordinal` days after the first of `month`.
civil(ordinal, month) ==
    IF ordinal < monthrange[month]
    THEN [month |-> month, day |-> ordinal + 1]
    ELSE civil(ordinal - monthrange[month], month + 1)

RECURSIVE date(_, _)
\* datetime.date(2024, month, day) as a day ordinal
date(month, day) ==
    IF month = 1 THEN day - 1 ELSE monthrange[month - 1] + date(month - 1, day)

RECURSIVE total(_, _)
\* func.sum over a column, 0 for no rows (scalar() or 0)
total(rows, column) ==
    IF rows = {} THEN 0
    ELSE LET r == CHOOSE x \in rows : TRUE
         IN  r[column] + total(rows \ {r}, column)

\* figure in text (substring test)
Contains(text, figure) ==
    \E i \in 1..(Len(text) - Len(figure) + 1) :
        SubSeq(text, i, i + Len(figure) - 1) = figure

\* hashlib.sha256(...).hexdigest(): collision-free digest of the payload.
sha256(payload) == <<"sha256", payload>>

\* f"{msg['id']}:{msg['internalDate']}"
dedup_payload(msg) == msg.id \o ":" \o ToString(msg.internalDate)

content_hash(msg) == sha256(dedup_payload(msg))

\* f"MANUAL-{user_id}-{time.time()}"
manual_seed(u, t) == "MANUAL-" \o u \o "-" \o ToString(t)

\* TransactionService._resolve_surety: the possible results of
\* select(SubCategory.is_surety).where(name == sub).limit(1), "or False".
resolve_surety(sub) ==
    IF sub = "" THEN {FALSE}
    ELSE LET rows == {s \in sub_categories : s.name = sub}
         IN  IF rows = {} THEN {FALSE} ELSE {s.is_surety : s \in rows}

get_transaction_by_hash(h) == {t \in transactions : t.raw_content_hash = h}

get_merchant_mapping(raw) == {m \in merchant_mappings : m.raw_merchant = raw}

\* select(Transaction).where(id == transaction_id, user_id == user_id)
owned_transaction(tid, u) == {t \in transactions : t.id = tid /\ t.user_id = u}

NoMapping ==
    [raw_merchant |-> "", display_name |-> "", default_category |-> "",
     default_sub_category |-> ""]

\* Local variables of an execute_sync invocation that has not extracted yet.
NoExtraction ==
    [amount |-> 0, merchant_name |-> "", category |-> "", sub_category |-> "",
     account_type |-> "", is_surety |-> FALSE]

IdleRun ==
    [pc |-> "idle", user |-> "", source |-> "", log |-> NoId, messages |-> <<>>,
     processed_count |-> 0, mapping |-> NoMapping, txn |-> NoExtraction,
     error |-> ""]

\* An invocation whose loop locals are gone: in the except block, returned or
\* left by an exception.
Unwound(run, pc, error) ==
    [IdleRun EXCEPT !.pc = pc, !.user = run.user, !.source = run.source,
                    !.log = run.log, !.error = error]

RECURSIVE newest_first(_)
\* messages().list(): the matching messages, newest first.
newest_first(S) ==
    IF S = {} THEN <<>>
    ELSE LET m == CHOOSE x \in S : \A y \in S : x.internalDate >= y.internalDate
         IN  <<m>> \o newest_first(S \ {m})

\* maxResults of the Gmail list call.
maxResults == 20

\* SyncService._get_last_sync_time
get_last_sync_time(u) ==
    LET ok == {i \in 1..Len(sync_logs) :
                  sync_logs[i].user_id = u /\ sync_logs[i].status = "SUCCESS"}
    IN  IF ok = {} THEN NoDate
        ELSE LET i == CHOOSE i \in ok :
                          \A j \in ok : sync_logs[i].start_time >= sync_logs[j].start_time
             IN  sync_logs[i].start_time

\* SyncService.fetch_gmail_changes when the mailbox answers: the keyword
\* matches that are after start_time, capped at maxResults.
fetch_gmail_changes(u, start_time) ==
    LET matching == {m \in Mailbox[u] :
                        /\ m.internalDate <= now
                        /\ (start_time = NoDate \/ m.internalDate > start_time)}
        listed == newest_first(matching)
    IN  SubSeq(listed, 1, Min2(Len(listed), maxResults))

\* A _log_end that drops the count.
log_end_without_count(logs, id, status, count, error) ==
    [logs EXCEPT ![id] = [@ EXCEPT !.status = status, !.records_processed = 0,
                                   !.error_message = error, !.end_time = now]]

\* SyncService._log_end
log_end(logs, id, status, count, error) ==
    [logs EXCEPT ![id] = [@ EXCEPT !.status = status, !.records_processed = count,
                                   !.error_message = error, !.end_time = now]]

----------------------------------------------------------------------------
(* Wealth service: holdings, snapshots, mapping rules                      *)
(* Money is in paise, a price in paise per unit, units are whole numbers;  *)
(* the inputs are chosen so that every quotient is exact.  xirr and the    *)
(* SIP metadata of a snapshot are never read by these operations and are   *)
(* left out.                                                               *)

RECURSIVE lower(_)
\* str.lower()
lower(s) ==
    LET upper == "ABCDEFGHIJKLMNOPQRSTUVWXYZ"
        small == "abcdefghijklmnopqrstuvwxyz"
        c == SubSeq(s, 1, 1)
        at == {k \in 1..26 : SubSeq(upper, k, k) = c}
    IN  IF s = "" THEN ""
        ELSE (IF at = {} THEN c ELSE LET k == CHOOSE k \in at : TRUE
                                     IN  SubSeq(small, k, k))
             \o lower(SubSeq(s, 2, Len(s)))

\* What the price source (MFAPI, yfinance) answers during one request;
\* 0: the fetch raises.
Quotes == {0, 200}

\* WealthService.get_asset_price (1.0 is 100 paise); 0 when the fetch raises
get_asset_price(holding, quote) ==
    IF holding.asset_type \in {"FD", "RD", "PF", "GRATUITY"} THEN 100
    ELSE IF holding.ticker_symbol = "" THEN 100
    ELSE IF holding.api_source \in {"MFAPI", "YFINANCE"} THEN quote
    ELSE 100

\* The wealth tables hs and rows are within the bounds.
Bounded(hs, rows) ==
    /\ Cardinality(hs) <= MaxHoldings
    /\ Cardinality(rows) <= MaxSnapshots
    /\ \A h \in hs : Abs(h.total_invested) <= MaxInvested
    /\ \A s \in rows : Abs(s.amount_invested_delta) <= MaxInvested

\* Bodies of InvestmentHoldingCreate (None is 0, NoDate or ""); interest_rate
\* and maturity_date are never read.
HoldingCreates ==
    LET fund == [name |-> "Index Fund", asset_type |-> "MUTUAL_FUND",
                 ticker_symbol |-> "120503", api_source |-> "MFAPI",
                 current_units |-> 0, total_invested |-> 0,
                 investment_start_date |-> NoDate, investment_type |-> ""]
        held == [fund EXCEPT !.current_units = 10, !.total_invested = 100000,
                             !.investment_start_date = 0]
    IN  {fund,
         [held EXCEPT !.investment_type = "LUMPSUM"],
         [held EXCEPT !.investment_type = "LUMPSUM",
                      !.investment_start_date = 31],
         [held EXCEPT !.investment_type = "SIP"],
         [held EXCEPT !.name = "Deposit", !.asset_type = "FD",
                      !.ticker_symbol = "", !.api_source = "",
                      !.investment_type = "RECURRING"]}

\* WealthService._create_synthetic_snapshots: the rows in the order they are
\* added (ids are given at the INSERT).
create_synthetic_snapshots(holding, data, today, quote) ==
    LET current_units == data.current_units
        total_invested == data.total_invested
        start_date == data.investment_start_date
        investment_type == IF data.investment_type = "" THEN "SIP"
                           ELSE data.investment_type
        fetched == get_asset_price(holding, quote)
        current_nav == IF fetched # 0 THEN fetched
                       ELSE IF current_units > 0
                            THEN total_invested \div current_units ELSE 100
        start_nav == IF current_units > 0 THEN total_invested \div current_units
                     ELSE current_nav
        row(captured_at, units, price, delta, projected) ==
            [id |-> NoId, holding_id |-> holding.id, user_id |-> holding.user_id,
             captured_at |-> captured_at, units_held |-> units,
             price_per_unit |-> price, total_value |-> units * price,
             amount_invested_delta |-> delta, is_projected |-> projected]
        start == civil(start_date, 1)
        months == civil(today, 1).month - start.month
        months_diff == IF months <= 0 THEN 1 ELSE months
        sip_amount == total_invested \div months_diff
        \* start_date + relativedelta(months=i); 366 is a day of 2025
        snap_date(i) ==
            IF start.month + i > 12 THEN 366
            ELSE date(start.month + i,
                      Min2(start.day, monthrange[start.month + i]))
        elapsed == {i \in 0..months_diff : snap_date(i) <= today}
    IN  IF investment_type = "LUMPSUM"
        THEN <<[row(start_date, current_units, start_nav, total_invested, TRUE)
                   EXCEPT !.total_value = total_invested],
               row(today, current_units, current_nav, 0, FALSE)>>
        ELSE IF investment_type = "SIP"
        THEN [k \in 1..Cardinality(elapsed) |->
                 LET i == k - 1
                     invested_so_far == sip_amount * (i + 1)
                     units_so_far == (current_units * invested_so_far)
                                        \div total_invested
                     estimated_nav == start_nav +
                         ((current_nav - start_nav) * i) \div months_diff
                 IN  row(snap_date(i), units_so_far, estimated_nav, sip_amount,
                         snap_date(i) # today)]
        ELSE <<row(today, current_units, current_nav, total_invested, TRUE)>>

\* POST /wealth/holdings: WealthService.create_holding
CreateHolding(u, data, quote) ==
    LET id == 100 + next_id
        fetched == get_asset_price(data, quote)
        holding ==
            [id |-> id, user_id |-> u, name |-> data.name,
             asset_type |-> data.asset_type,
             ticker_symbol |-> data.ticker_symbol,
             api_source |-> data.api_source,
             current_value |->
                 IF data.current_units # 0
                    /\ data.api_source \in {"MFAPI", "YFINANCE"}
                 THEN IF fetched = 0 THEN data.total_invested
                      ELSE data.current_units * fetched
                 ELSE 0,
             total_invested |-> data.total_invested,
             last_updated_at |-> NoDate]
        synthetic ==
            IF data.current_units # 0 /\ data.total_invested # 0
               /\ data.investment_start_date # NoDate
            THEN create_synthetic_snapshots(holding, data, now, quote)
            ELSE <<>>
    IN  /\ holdings' = holdings \cup {holding}
        /\ snapshots' = snapshots \cup
              {[synthetic[i] EXCEPT !.id = id + i] : i \in 1..Len(synthetic)}
        /\ next_id' = next_id + 1 + Len(synthetic)
        /\ Bounded(holdings', snapshots')
        /\ response' = 200
        /\ UNCHANGED <<ledgerVars, taxonomyVars, syncVars, accountVars, now,
                       request, apart, mapping_rules, mapped, imported,
                       sessions>>

\* .where(captured_at < d).order_by(desc(captured_at)).limit(1): the rows the
\* database may answer (one of the newest when several share the date).
latest_before(rows, d) ==
    {s \in rows : /\ s.captured_at < d
                  /\ \A t \in rows : t.captured_at < d =>
                                        t.captured_at <= s.captured_at}

RECURSIVE order_by_captured_at(_)
\* .order_by(captured_at): the orders the database may answer in
order_by_captured_at(rows) ==
    IF rows = {} THEN {<<>>}
    ELSE UNION {{<<m>> \o rest : rest \in order_by_captured_at(rows \ {m})} :
                   m \in {s \in rows :
                             \A t \in rows : s.captured_at <= t.captured_at}}

RECURSIVE running(_, _, _)
\* The walk of recalculate_holding_history from the k-th snapshot on.
running(ordered, k, running_units) ==
    IF k > Len(ordered) THEN <<>>
    ELSE LET snap == ordered[k]
             price == IF snap.price_per_unit <= 0 THEN 100
                      ELSE snap.price_per_unit
             units == running_units + snap.amount_invested_delta \div price
         IN  <<[snap EXCEPT !.price_per_unit = price, !.units_held = units,
                            !.total_value = units * price]>>
             \o running(ordered, k + 1, units)

\* WealthService.recalculate_holding_history over the tables hs and rows as
\* the database holds them (autoflush is off: rows added in this session
\* and not yet committed are not among them): the possible results.
recalculate_holding_history(holding_id, hs, rows) ==
    LET mine == {s \in rows : s.holding_id = holding_id}
    IN  {[holdings |->
              IF mine = {} THEN hs
              ELSE {IF h.id = holding_id
                    THEN [h EXCEPT
                            !.current_value = redone[Len(redone)].total_value,
                            !.total_invested =
                                total(mine, "amount_invested_delta"),
                            !.last_updated_at = now]
                    ELSE h : h \in hs},
          snapshots |->
              (rows \ mine) \cup {redone[k] : k \in 1..Len(redone)}] :
            redone \in {running(o, 1, 0) : o \in order_by_captured_at(mine)}}

\* WealthService.add_transaction_to_holding: the possible results; raised
\* when scalar_one_or_none finds several snapshots of the day.
add_transaction_to_holding(transaction, holding_id, quote) ==
    LET found == {h \in holdings : h.id = holding_id}
        holding == CHOOSE h \in found : TRUE
        txn_date == IF transaction.transaction_date # NoDate
                    THEN transaction.transaction_date ELSE now
        invested_delta == -transaction.amount
        fetched == get_asset_price(holding, quote)
        price == IF fetched = 0 THEN 100 ELSE fetched
        units == IF price > 0 THEN invested_delta \div price ELSE 0
        mine == {s \in snapshots : s.holding_id = holding_id}
        existing == {s \in mine : s.captured_at = txn_date}
        unchanged == [raised |-> FALSE, holdings |-> holdings,
                      snapshots |-> snapshots]
    IN  IF found = {} THEN {unchanged}
        ELSE IF Cardinality(existing) > 1
        THEN {[unchanged EXCEPT !.raised = TRUE]}
        ELSE IF existing # {}
        THEN LET e == CHOOSE s \in existing : TRUE
                 merged == [e EXCEPT
                              !.units_held = @ + units,
                              !.amount_invested_delta = @ + invested_delta,
                              !.price_per_unit = price,
                              !.total_value = (e.units_held + units) * price]
             IN  {[raised |-> FALSE, holdings |-> r.holdings,
                   snapshots |-> r.snapshots] :
                     r \in recalculate_holding_history(
                              holding_id, holdings,
                              (snapshots \ {e}) \cup {merged})}
        ELSE LET prev == latest_before(mine, txn_date)
                 snap(prev_units) ==
                     [id |-> 100 + next_id, holding_id |-> holding_id,
                      user_id |-> transaction.user_id,
                      captured_at |-> txn_date,
                      units_held |-> prev_units + units,
                      price_per_unit |-> price,
                      total_value |-> (prev_units + units) * price,
                      amount_invested_delta |-> invested_delta,
                      is_projected |-> FALSE]
             IN  {[raised |-> FALSE, holdings |-> r.holdings,
                   snapshots |-> r.snapshots \cup {snap(prev_units)}] :
                     r \in recalculate_holding_history(
                              holding_id, holdings, snapshots),
                     prev_units \in IF prev = {} THEN {0}
                                    ELSE {p.units_held : p \in prev}}

\* Two requests, each in the session get_db opens for it.
SessionIds == {1, 2}

\* A session that has issued no statement; holding and loaded are its identity
\* map (each object as the row was read and as the session holds it now),
\* pending the objects added and not yet flushed, seen (history) the
\* committed tables at its first query.
IdleSession ==
    [pc |-> "idle", transaction_id |-> NoId, holding_id |-> NoId, quote |-> 0,
     holding |-> {}, loaded |-> {}, pending |-> {}, seen |-> <<>>]

\* No request in flight; base is the database as the first request found it.
NoSessions ==
    [base |-> <<>>, overlapped |-> FALSE,
     open |-> [i \in SessionIds |-> IdleSession]]

\* WealthService.add_transaction_to_holding up to the call of
\* recalculate_holding_history, in a session of its own over the committed
\* tables db: the states the session may be in.
session_load(db, transaction, holding_id, quote, today) ==
    LET found == {h \in db.holdings : h.id = holding_id}
        holding == CHOOSE h \in found : TRUE
        txn_date == IF transaction.transaction_date # NoDate
                    THEN transaction.transaction_date ELSE today
        invested_delta == -transaction.amount
        fetched == get_asset_price(holding, quote)
        price == IF fetched = 0 THEN 100 ELSE fetched
        units == IF price > 0 THEN invested_delta \div price ELSE 0
        mine == {s \in db.snapshots : s.holding_id = holding_id}
        existing == {s \in mine : s.captured_at = txn_date}
        prev == latest_before(mine, txn_date)
        begun == [IdleSession EXCEPT !.pc = "loaded",
                                     !.transaction_id = transaction.id,
                                     !.holding_id = holding_id,
                                     !.quote = quote,
                                     !.seen = db,
                                     !.holding = {[was |-> holding,
                                                   is |-> holding]}]
        snap(prev_units) ==
            [id |-> NoId, holding_id |-> holding_id,
             user_id |-> transaction.user_id, captured_at |-> txn_date,
             units_held |-> prev_units + units, price_per_unit |-> price,
             total_value |-> (prev_units + units) * price,
             amount_invested_delta |-> invested_delta, is_projected |-> FALSE]
    IN  IF found = {} THEN {[begun EXCEPT !.pc = "done", !.holding = {}]}
        ELSE IF Cardinality(existing) > 1 THEN {[begun EXCEPT !.pc = "raised"]}
        ELSE IF existing # {}
        THEN LET e == CHOOSE r \in existing : TRUE
             IN  {[begun EXCEPT !.loaded =
                      {[was |-> e,
                        is |-> [e EXCEPT
                                  !.units_held = @ + units,
                                  !.amount_invested_delta = @ + invested_delta,
                                  !.price_per_unit = price,
                                  !.total_value = (e.units_held + units) * price]]}]}
        ELSE IF prev = {}
        THEN {[begun EXCEPT !.pending = {snap(0)}]}
        ELSE {[begun EXCEPT !.loaded = {[was |-> p, is |-> p]},
                            !.pending = {snap(p.units_held)}] : p \in prev}

\* A recalculation that flushes the pending objects before its SELECT.
session_recalculate_autoflush(db, session, today) ==
    LET rows == {r \in db.snapshots : r.holding_id = session.holding_id}
        held(r) == {m \in session.loaded : m.was.id = r.id}
        view == {IF held(r) = {} THEN [was |-> r, is |-> r]
                 ELSE CHOOSE m \in held(r) : TRUE : r \in rows}
        current == {m.is : m \in view} \cup session.pending
    IN  {[session EXCEPT
            !.pc = "recalculated",
            !.holding =
                IF current = {} THEN @
                ELSE {[was |-> h.was,
                       is |-> [h.is EXCEPT
                                 !.total_invested =
                                     total(current, "amount_invested_delta"),
                                 !.last_updated_at = today]] : h \in @}]}

\* WealthService.recalculate_holding_history in a session: the SELECT answers
\* the committed rows of db, an object the session already holds keeps the
\* attributes the session gave it, and pending objects are not flushed.
session_recalculate(db, session, today) ==
    LET rows == {r \in db.snapshots : r.holding_id = session.holding_id}
        held(r) == {m \in session.loaded : m.was.id = r.id}
        view == {IF held(r) = {} THEN [was |-> r, is |-> r]
                 ELSE CHOOSE m \in held(r) : TRUE : r \in rows}
        current == {m.is : m \in view}
        walked(redone) ==
            {[was |-> m.was,
              is |-> redone[CHOOSE k \in 1..Len(redone) :
                               redone[k].id = m.was.id]] : m \in view}
    IN  {[session EXCEPT
            !.pc = "recalculated",
            !.loaded = walked(redone),
            !.holding =
                IF current = {} THEN @
                ELSE {[was |-> h.was,
                       is |-> [h.is EXCEPT
                                 !.current_value =
                                     redone[Len(redone)].total_value,
                                 !.total_invested =
                                     total(current, "amount_invested_delta"),
                                 !.last_updated_at = today]] : h \in @}] :
            redone \in {running(o, 1, 0) : o \in order_by_captured_at(current)}}

\* The row after the UPDATE of a flush: the columns the session changed are
\* written, the others stay as committed.
flushed(row, tracked) ==
    LET held == {m \in tracked : m.was.id = row.id}
        m == CHOOSE x \in held : TRUE
    IN  IF held = {} THEN row
        ELSE [f \in DOMAIN row |-> IF m.is[f] # m.was[f] THEN m.is[f]
                                   ELSE row[f]]

\* await self.db.commit(): the tables after the flush of the session.
session_commit(db, session) ==
    [holdings |-> {flushed(h, session.holding) : h \in db.holdings},
     snapshots |->
         {flushed(r, session.loaded) : r \in db.snapshots}
             \cup {[p EXCEPT !.id = 100 + db.next_id] : p \in session.pending},
     next_id |-> db.next_id + Cardinality(session.pending)]

\* The committed tables.
database == [holdings |-> holdings, snapshots |-> snapshots, next_id |-> next_id]

\* Session i reads the holding, the snapshot of the day and the one before.
SessionLoad(i, transaction_id, holding_id, quote) ==
    /\ sessions.open[i].pc = "idle"
    /\ \E t \in {x \in transactions : x.id = transaction_id} :
          \E loaded \in session_load(database, t, holding_id, quote, now) :
             sessions' =
                 [sessions EXCEPT
                    !.open[i] = loaded,
                    !.base = IF \A j \in SessionIds : sessions.open[j].pc = "idle"
                             THEN database ELSE @,
                    !.overlapped =
                        @ \/ \E j \in SessionIds :
                                sessions.open[j].pc \in {"loaded", "recalculated"}]
    /\ UNCHANGED <<ledgerVars, taxonomyVars, syncVars, accountVars, next_id, now,
                   request, response, apart, holdings, snapshots, mapping_rules,
                   mapped, imported>>

\* Session i recalculates the holding from the rows committed by now.
SessionRecalculate(i) ==
    /\ sessions.open[i].pc = "loaded"
    /\ \E redone \in session_recalculate(database, sessions.open[i], now) :
          sessions' = [sessions EXCEPT !.open[i] = redone]
    /\ UNCHANGED <<ledgerVars, taxonomyVars, syncVars, accountVars, next_id, now,
                   request, response, apart, holdings, snapshots, mapping_rules,
                   mapped, imported>>

\* Session i commits and the request is answered.
SessionCommit(i) ==
    LET after == session_commit(database, sessions.open[i])
    IN  /\ sessions.open[i].pc = "recalculated"
        /\ holdings' = after.holdings
        /\ snapshots' = after.snapshots
        /\ next_id' = after.next_id
        /\ sessions' = [sessions EXCEPT !.open[i].pc = "done"]
        /\ response' = 200
        /\ UNCHANGED <<ledgerVars, taxonomyVars, syncVars, accountVars, now,
                       request, apart, mapping_rules, mapped, imported>>

\* WealthService.process_transaction_match: the possible results (the rules
\* come in no stated order; the first that matches is applied).
process_transaction_match(transaction, remarks, quote) ==
    LET merchant_name == IF transaction.merchant_name = NoMerchant
                         THEN "None" ELSE transaction.merchant_name
        search_text == lower(merchant_name \o " " \o remarks)
        matched ==
            {rule \in mapping_rules :
                /\ rule.user_id = transaction.user_id
                /\ \/ /\ rule.match_type = "CONTAINS"
                      /\ Contains(search_text, lower(rule.pattern))
                   \/ /\ rule.match_type = "EXACT"
                      /\ lower(rule.pattern) = search_text}
    IN  IF matched = {}
        THEN {[raised |-> FALSE, holdings |-> holdings, snapshots |-> snapshots]}
        ELSE UNION {add_transaction_to_holding(transaction, rule.holding_id, quote) :
                       rule \in matched}

\* POST /wealth/map-transaction: WealthService.map_transaction.  The rule is
\* refused by the database when the merchant name is missing (pattern NULL)
\* or the holding does not exist (foreign key).
MapTransaction(transaction_id, holding_id, create_rule, quote) ==
    LET found == {t \in transactions : t.id = transaction_id}
        transaction == CHOOSE t \in found : TRUE
        known == {rule \in mapping_rules :
                     /\ rule.user_id = transaction.user_id
                     /\ rule.pattern = transaction.merchant_name}
        stored == create_rule /\ known = {}
                  /\ transaction.merchant_name # NoMerchant
                  /\ \E h \in holdings : h.id = holding_id
    IN  /\ IF found = {}
           THEN /\ response' = 400
                /\ UNCHANGED <<wealthVars, next_id>>
           ELSE \E out \in add_transaction_to_holding(transaction, holding_id, quote) :
                  LET added == Cardinality(out.snapshots) - Cardinality(snapshots)
                      applied == IF out.snapshots = snapshots THEN 0 ELSE 1
                  IN  IF out.raised
                      THEN /\ response' = 500
                           /\ UNCHANGED <<wealthVars, next_id>>
                      ELSE /\ mapped + applied <= MaxMappings
                           /\ Bounded(out.holdings, out.snapshots)
                           /\ mapped' = mapped + applied
                           /\ holdings' = out.holdings
                           /\ snapshots' = out.snapshots
                           /\ response' = IF create_rule /\ known = {} /\ ~stored
                                          THEN 500 ELSE 200
                           /\ next_id' = next_id + added + (IF stored THEN 1 ELSE 0)
                           /\ mapping_rules' =
                                 IF ~stored THEN mapping_rules
                                 ELSE mapping_rules \cup
                                         {[id |-> 100 + next_id + added,
                                           user_id |-> transaction.user_id,
                                           holding_id |-> holding_id,
                                           pattern |-> transaction.merchant_name,
                                           match_type |-> "CONTAINS"]}
        /\ UNCHANGED <<ledgerVars, taxonomyVars, syncVars, accountVars, now,
                       request, apart, imported, sessions>>

\* WealthService.sync_all_holdings_prices (daily job, GET /wealth/sync-prices):
\* quote[h] is the price fetched for holding h, prev[h] the id of the row its
\* previous-snapshot query answers.
SyncAllHoldingsPrices ==
    LET ids == {h.id : h \in holdings}
        of(h) == {s \in snapshots : s.holding_id = h.id}
        todays(h) == {s \in of(h) : s.captured_at = now}
    IN  \E quote \in [ids -> Quotes],
           prev \in [ids -> {s.id : s \in snapshots} \cup {NoId}] :
          LET price(h) == get_asset_price(h, quote[h.id])
              priced == {h \in holdings : /\ h.ticker_symbol # ""
                                          /\ price(h) > 0
                                          /\ Cardinality(todays(h)) <= 1}
              units(h) == IF prev[h.id] = NoId THEN 0
                          ELSE (CHOOSE s \in snapshots : s.id = prev[h.id]).units_held
              rank(h) == Cardinality({g \in holdings : g.id < h.id})
              added == {h \in priced : todays(h) = {} /\ units(h) > 0}
          IN  /\ \A h \in holdings :
                    prev[h.id] \in
                        IF h \in priced /\ todays(h) = {}
                           /\ latest_before(of(h), now) # {}
                        THEN {s.id : s \in latest_before(of(h), now)}
                        ELSE {NoId}
              /\ Cardinality(snapshots) + Cardinality(added) <= MaxSnapshots
              /\ snapshots' =
                    {IF \E h \in priced : s \in todays(h)
                     THEN LET h == CHOOSE h \in priced : s \in todays(h)
                          IN  [s EXCEPT !.price_per_unit = price(h),
                                        !.total_value = s.units_held * price(h)]
                     ELSE s : s \in snapshots}
                    \cup {[id |-> 100 + next_id + rank(h), holding_id |-> h.id,
                           user_id |-> h.user_id, captured_at |-> now,
                           units_held |-> units(h), price_per_unit |-> price(h),
                           total_value |-> units(h) * price(h),
                           amount_invested_delta |-> 0,
                           is_projected |-> FALSE] : h \in added}
              /\ holdings' =
                    {IF h \in priced
                     THEN [h EXCEPT
                             !.current_value =
                                 IF todays(h) # {}
                                 THEN (CHOOSE s \in todays(h) : TRUE).units_held
                                         * price(h)
                                 ELSE units(h) * price(h),
                             !.last_updated_at = now]
                     ELSE h : h \in holdings}
              /\ next_id' = IF added = {} THEN next_id
                            ELSE next_id + Cardinality(holdings)
    /\ UNCHANGED <<ledgerVars, taxonomyVars, syncVars, accountVars, now,
                   response, request, apart, mapping_rules, mapped,
                   imported, sessions>>

\* Bodies of CAMSImportRequest; a statement lists its transactions in date
\* order, which txns.sort keeps.  detect_sip_patterns only sets the SIP
\* metadata.
CamsRequests ==
    LET line(d, scheme, amount, units, nav, type) ==
            [transaction_date |-> d, scheme_name |-> scheme, amount |-> amount,
             units |-> units, nav |-> nav, transaction_type |-> type]
    IN  {[auto_create_holdings |-> TRUE,
          transactions |->
              <<line(0, "Index Fund", 100000, 10, 10000, "Purchase"),
                line(0, "Index Fund", 50000, 5, 10000, "Redemption")>>],
         [auto_create_holdings |-> TRUE,
          transactions |->
              <<line(0, "Index Fund", 100000, 10, 10000, "SIP Purchase"),
                line(0, "Index Fund", 5, 0, 10000, "Stamp Duty"),
                line(0, "Index Fund", 100000, 10, 10000, "Purchase")>>],
         [auto_create_holdings |-> FALSE,
          transactions |->
              <<line(0, "Index Fund", 100000, 10, 10000, "Purchase"),
                line(1, "Liquid Fund", 20000, 1, 20000, "Switch In")>>]}

RECURSIVE import_transactions(_, _, _, _, _, _)
\* The loop of import_cams_statement over the transactions of one scheme from
\* the k-th on; st holds the tables with the rows added so far.  The lookup
\* of the day's snapshot sees the rows stored before this request only.
import_transactions(holding_id, u, txns, k, running_units, st) ==
    IF k > Len(txns)
    THEN [raised |-> FALSE, running_units |-> running_units, st |-> st]
    ELSE LET txn == txns[k]
             t_type == lower(txn.transaction_type)
             is_buy == \E x \in {"purchase", "sip", "switch in", "dividend",
                                 "invest", "reinvest"} : Contains(t_type, x)
             is_sell == \E x \in {"redemption", "sell", "switch out",
                                  "withdraw"} : Contains(t_type, x)
             existing_snap ==
                 {s \in st.snapshots : /\ s.id < 100 + next_id
                                       /\ s.holding_id = holding_id
                                       /\ s.captured_at = txn.transaction_date}
             snapshot(units, invested_delta) ==
                 [id |-> 100 + st.next_id, holding_id |-> holding_id,
                  user_id |-> u, captured_at |-> txn.transaction_date,
                  units_held |-> units, price_per_unit |-> txn.nav,
                  total_value |-> units * txn.nav,
                  amount_invested_delta |-> invested_delta,
                  is_projected |-> FALSE]
             inserted(units, invested_delta) ==
                 [st EXCEPT !.snapshots = @ \cup {snapshot(units, invested_delta)},
                            !.next_id = @ + 1]
         IN  IF is_buy
             THEN IF Cardinality(existing_snap) > 1
                  THEN [raised |-> TRUE, running_units |-> running_units, st |-> st]
                  ELSE IF existing_snap # {}
                  THEN LET e == CHOOSE s \in existing_snap : TRUE
                       IN  import_transactions(holding_id, u, txns, k + 1,
                              running_units + txn.units,
                              [st EXCEPT !.snapshots = (@ \ {e}) \cup
                                  {[e EXCEPT
                                      !.units_held = running_units + txn.units,
                                      !.price_per_unit = txn.nav,
                                      !.total_value =
                                          (running_units + txn.units) * txn.nav,
                                      !.amount_invested_delta = @ + txn.amount]}])
                  ELSE import_transactions(holding_id, u, txns, k + 1,
                          running_units + txn.units,
                          inserted(running_units + txn.units, txn.amount))
             ELSE IF is_sell
             THEN import_transactions(holding_id, u, txns, k + 1,
                     running_units - txn.units,
                     inserted(running_units - txn.units, -txn.amount))
             ELSE import_transactions(holding_id, u, txns, k + 1,
                                      running_units, st)

\* The body of the loop over the schemes: what one scheme leaves in st
\* (an exception ends the scheme and keeps what the session holds).
import_scheme(st, u, scheme_name, txns, auto_create_holdings) ==
    LET found == {h \in st.holdings : h.user_id = u /\ h.name = scheme_name}
        holding_id == IF found = {} THEN 100 + st.next_id
                      ELSE (CHOOSE h \in found : TRUE).id
        created ==
            [st EXCEPT
               !.holdings = @ \cup
                   {[id |-> holding_id, user_id |-> u, name |-> scheme_name,
                     asset_type |-> "MUTUAL_FUND", ticker_symbol |-> "",
                     api_source |-> "MFAPI", current_value |-> 0,
                     total_invested |-> 0, last_updated_at |-> NoDate]},
               !.next_id = @ + 1]
        done == import_transactions(holding_id, u, txns, 1, 0,
                                    IF found = {} THEN created ELSE st)
        signed == {[k |-> k,
                    amount |->
                       LET t_type == lower(txns[k].transaction_type)
                       IN  IF \E x \in {"purchase", "sip", "switch in", "dividend",
                                        "invest", "reinvest"} : Contains(t_type, x)
                           THEN txns[k].amount
                           ELSE IF \E x \in {"redemption", "sell", "switch out",
                                             "withdraw"} : Contains(t_type, x)
                           THEN -txns[k].amount
                           ELSE 0] : k \in 1..Len(txns)}
        net_investment == total(signed, "amount")
        last_nav == txns[Len(txns)].nav
    IN  IF Cardinality(found) > 1 THEN st
        ELSE IF found = {} /\ ~auto_create_holdings THEN st
        ELSE IF done.raised THEN done.st
        ELSE [done.st EXCEPT
                !.holdings =
                    {IF h.id = holding_id
                     THEN [h EXCEPT
                             !.total_invested = @ + net_investment,
                             !.current_value =
                                 IF last_nav > 0
                                 THEN done.running_units * last_nav ELSE @,
                             !.last_updated_at = now]
                     ELSE h : h \in @}]

RECURSIVE import_cams_statement(_, _, _, _)
\* WealthService.import_cams_statement: the tables after the schemes named
\* in scheme_names are processed (the schemes touch different holdings, so
\* the order of the groups does not matter).
import_cams_statement(st, u, statement, scheme_names) ==
    IF scheme_names = {} THEN st
    ELSE LET scheme_name == CHOOSE n \in scheme_names : TRUE
             of(txn) == txn.scheme_name = scheme_name
         IN  import_cams_statement(
                 import_scheme(st, u, scheme_name,
                               SelectSeq(statement.transactions, of),
                               statement.auto_create_holdings),
                 u, statement, scheme_names \ {scheme_name})

\* POST /wealth/import-cams
ImportCams(u, statement) ==
    LET st == import_cams_statement(
                  [holdings |-> holdings, snapshots |-> snapshots,
                   next_id |-> next_id],
                  u, statement,
                  {statement.transactions[k].scheme_name :
                      k \in 1..Len(statement.transactions)})
    IN  /\ Bounded(st.holdings, st.snapshots)
        /\ holdings' = st.holdings
        /\ snapshots' = st.snapshots
        /\ next_id' = st.next_id
        /\ imported' =
              LET written == st.snapshots \ snapshots
              IN  {i \in imported : \A s \in written : s.id # i.id}
                  \cup {[id |-> s.id, units_held |-> s.units_held] :
                           s \in written}
        /\ response' = 200
        /\ UNCHANGED <<ledgerVars, taxonomyVars, syncVars, accountVars, now,
                       request, apart, mapping_rules, mapped, sessions>>

----------------------------------------------------------------------------
(* Sync service: execute_sync, one action per await-separated stage        *)

\* _log_start: background task started by /sync/manual or /sync/webhook.
SyncStart(r, u, source) ==
    /\ runs[r].pc = "idle"
    /\ \A q \in RunIds : q < r => runs[q].pc # "idle"
    /\ sync_logs' = Append(sync_logs,
            [user_id |-> u, trigger_source |-> source, status |-> "IN_PROGRESS",
             start_time |-> now, end_time |-> NoDate, records_processed |-> 0,
             error_message |-> ""])
    /\ runs' = [runs EXCEPT ![r] = [IdleRun EXCEPT !.pc = "fetch", !.user = u,
                                       !.source = source, !.log = Len(sync_logs) + 1]]
    /\ UNCHANGED <<ledgerVars, taxonomyVars, persisted, now, response, request, outsideLedger>>

\* _get_last_sync_time, fetch_gmail_changes (which returns [] on any mailbox
\* error), the first (effect-free) loop, get_categories, processed_count = 0.
SyncFetch(r) ==
    /\ runs[r].pc = "fetch"
    /\ \E mailbox_ok \in BOOLEAN :
          LET start_time == get_last_sync_time(runs[r].user)
              messages == IF mailbox_ok
                          THEN fetch_gmail_changes(runs[r].user, start_time)
                          ELSE <<>>
          IN  runs' = [runs EXCEPT ![r].messages = messages, ![r].pc = "loop",
                                   ![r].processed_count = 0]
    /\ UNCHANGED <<ledgerVars, taxonomyVars, sync_logs, persisted, now, response, request, outsideLedger>>

\* An amount stored as extracted, without the sign rule.
absolute_amount(extracted, cat) == Abs(extracted.amount)

\* The sign rule of execute_sync.
signed_amount(extracted, cat) ==
    LET final_amount == Abs(extracted.amount)
    IN  IF extracted.transaction_type = "DEBIT" /\ cat # "Income"
        THEN -final_amount
        ELSE IF cat = "Income" \/ extracted.transaction_type = "CREDIT"
             THEN final_amount
             ELSE -final_amount

\* select(SubCategory.is_surety).where(name == sub).limit(1); scalar() or False
sync_surety(sub) ==
    LET rows == {s \in sub_categories : s.name = sub}
    IN  IF rows = {} THEN {FALSE} ELSE {s.is_surety : s \in rows}

\* A lookup whose result is never applied.
ignore_mapping(extracted) ==
    [mapping |-> NoMapping, cat |-> extracted.category,
     sub |-> extracted.sub_category]

\* The local variables mapping, cat, sub after the merchant-mapping lookup.
apply_mapping(extracted) ==
    LET found == get_merchant_mapping(extracted.merchant_name)
        mapping == IF found = {} THEN NoMapping ELSE CHOOSE m \in found : TRUE
    IN  [mapping |-> mapping,
         cat |-> IF found # {} THEN mapping.default_category ELSE extracted.category,
         sub |-> IF found # {} THEN mapping.default_sub_category
                 ELSE extracted.sub_category]

\* Loop body up to the INSERT: dedup lookup (continue when the hash is
\* stored), sanitize, call_brain_api, get_merchant_mapping, zero-amount skip,
\* sign and surety.
SyncExtractFrom(r, extractions) ==
    /\ runs[r].pc = "loop"
    /\ runs[r].messages # <<>>
    /\ LET msg == Head(runs[r].messages)
       IN  IF get_transaction_by_hash(content_hash(msg)) # {}
           THEN runs' = [runs EXCEPT ![r].messages = Tail(@)]
           ELSE \E extracted \in extractions :
                  LET m == apply_mapping(extracted)
                  IN  IF Abs(extracted.amount) = 0
                      THEN runs' = [runs EXCEPT ![r].messages = Tail(@)]
                      ELSE \E is_surety_flag \in sync_surety(m.sub) :
                             runs' = [runs EXCEPT
                                ![r].pc = "create",
                                ![r].mapping = m.mapping,
                                ![r].txn = [amount |-> signed_amount(extracted, m.cat),
                                            merchant_name |-> extracted.merchant_name,
                                            category |-> m.cat, sub_category |-> m.sub,
                                            account_type |-> extracted.account_type,
                                            is_surety |-> is_surety_flag]]
    /\ UNCHANGED <<ledgerVars, taxonomyVars, sync_logs, persisted, now, response, request, outsideLedger>>

\* The loop body with the answers call_brain_api gives in most specifications.
SyncExtract(r) == SyncExtractFrom(r, Extractions)

\* Transaction(**txn_data) as built by execute_sync (column defaults filled;
\* currency, remarks and tags are never read back and are left out).
synced_transaction(id, u, h, d) ==
    [id |-> id, user_id |-> u, raw_content_hash |-> h, amount |-> d.amount,
     merchant_name |-> d.merchant_name, category |-> d.category,
     sub_category |-> d.sub_category, status |-> PENDING,
     account_type |-> d.account_type, is_surety |-> d.is_surety,
     credit_card_id |-> NoId, transaction_date |-> NoDate, is_manual |-> FALSE,
     is_settled |-> FALSE, created_at |-> now]

\* A table without the unique index.
no_unique_index(h) == TRUE

\* The unique index on transactions.raw_content_hash.
hash_is_free(h) == get_transaction_by_hash(h) = {}

\* create_transaction (commit), process_transaction_match, processed_count += 1.
SyncCreate(r) ==
    /\ runs[r].pc = "create"
    /\ LET msg == Head(runs[r].messages)
           h == content_hash(msg)
           new_txn == synced_transaction(next_txn_id, runs[r].user, h, runs[r].txn)
       IN  IF hash_is_free(h)
           THEN /\ next_txn_id <= MaxTxns
                /\ transactions' = transactions \cup {new_txn}
                /\ next_txn_id' = next_txn_id + 1
                /\ persisted' = [persisted EXCEPT ![r] = @ + 1]
                /\ \E quote \in Quotes :
                     \E out \in process_transaction_match(
                                    new_txn, "Synced via " \o runs[r].source, quote) :
                        /\ Bounded(out.holdings, out.snapshots)
                        /\ holdings' = out.holdings
                        /\ snapshots' = out.snapshots
                        /\ mapped' = IF out.snapshots = snapshots THEN mapped
                                     ELSE mapped + 1
                        /\ mapped' <= MaxMappings
                        /\ next_id' = next_id + Cardinality(out.snapshots)
                                                - Cardinality(snapshots)
                /\ runs' = [runs EXCEPT ![r].messages = Tail(@), ![r].pc = "loop",
                                         ![r].processed_count = @ + 1,
                                         ![r].mapping = NoMapping,
                                         ![r].txn = NoExtraction]
           ELSE /\ runs' = [runs EXCEPT ![r] = Unwound(@, "except", "IntegrityError")]
                /\ UNCHANGED <<transactions, next_txn_id, persisted, holdings,
                               snapshots, mapped, next_id>>
    /\ UNCHANGED <<merchant_mappings, time_time, taxonomyVars, sync_logs, now,
                   response, request, accountVars, apart, mapping_rules,
                   imported, sessions>>

\* await self._log_end(log, "SUCCESS", processed_count)
SyncLogEnd(r) ==
    /\ runs[r].pc = "loop"
    /\ runs[r].messages = <<>>
    /\ sync_logs' = log_end(sync_logs, runs[r].log, "SUCCESS", runs[r].processed_count, "")
    /\ runs' = [runs EXCEPT ![r] = Unwound(@, "done", "")]
    /\ UNCHANGED <<ledgerVars, taxonomyVars, persisted, now, response, request, outsideLedger>>

\* Any statement inside the try block can raise (database error).
SyncRaise(r) ==
    /\ runs[r].pc \in {"fetch", "loop", "create"}
    /\ runs' = [runs EXCEPT ![r] = Unwound(@, "except", "OperationalError")]
    /\ UNCHANGED <<ledgerVars, taxonomyVars, sync_logs, persisted, now, response, request, outsideLedger>>

\* except Exception as e: await self._log_end(log, "FAILED", 0, str(e));
\* when that commit fails too the exception leaves execute_sync.
SyncExcept(r) ==
    /\ runs[r].pc = "except"
    /\ \/ /\ sync_logs' = log_end(sync_logs, runs[r].log, "FAILED", 0, runs[r].error)
          /\ runs' = [runs EXCEPT ![r] = Unwound(@, "done", @.error)]
       \/ /\ runs' = [runs EXCEPT ![r] = Unwound(@, "raised", @.error)]
          /\ UNCHANGED sync_logs
    /\ UNCHANGED <<ledgerVars, taxonomyVars, persisted, now, response, request, outsideLedger>>

----------------------------------------------------------------------------
(* Transactions service                                                    *)

\* No request answered yet.
NoReply == 0

NoRequest == [user |-> "", id |-> NoId]

\* The row of the caller's transaction with that id (callers test for {} first).
the_transaction(tid, u) == CHOOSE t \in owned_transaction(tid, u) : TRUE

\* MerchantMapping upsert of verify_transaction: the mapping table after the
\* commit.  raw_merchant is the primary key.
learn_mapping(mappings, raw_merchant_key, verification) ==
    LET existing == {m \in mappings : m.raw_merchant = raw_merchant_key}
        row == [raw_merchant |-> IF raw_merchant_key = "" THEN "UNKNOWN"
                                 ELSE raw_merchant_key,
                display_name |-> verification.merchant_name,
                default_category |-> verification.category,
                default_sub_category |-> verification.sub_category]
    IN  IF existing # {}
        THEN (mappings \ existing) \cup
                 {[m EXCEPT !.display_name = verification.merchant_name,
                            !.default_category = verification.category,
                            !.default_sub_category = verification.sub_category] :
                      m \in existing}
        ELSE mappings \cup {row}

\* The INSERT of verify_transaction hits the primary key of merchant_mappings.
mapping_key_conflict(mappings, raw_merchant_key) ==
    /\ {m \in mappings : m.raw_merchant = raw_merchant_key} = {}
    /\ \E m \in mappings :
          m.raw_merchant = (IF raw_merchant_key = "" THEN "UNKNOWN" ELSE raw_merchant_key)

\* The status verify_transaction writes.
verified_status(txn, verification) ==
    IF verification.approved THEN VERIFIED ELSE REJECTED

\* PATCH /transactions/{id}/verify
VerifyTransaction(u, tid, verification) ==
    /\ IF owned_transaction(tid, u) = {}
       THEN /\ response' = 404
            /\ UNCHANGED <<transactions, merchant_mappings>>
       ELSE LET txn == the_transaction(tid, u)
            IN  IF ~verification.approved
                THEN /\ transactions' = (transactions \ {txn}) \cup
                            {[txn EXCEPT !.status = verified_status(txn, verification)]}
                     /\ UNCHANGED merchant_mappings
                     /\ response' = 200
                ELSE IF mapping_key_conflict(merchant_mappings, txn.merchant_name)
                THEN /\ response' = 500
                     /\ UNCHANGED <<transactions, merchant_mappings>>
                ELSE \E surety \in resolve_surety(verification.sub_category) :
                     /\ transactions' = (transactions \ {txn}) \cup
                            {[txn EXCEPT
                                !.status = verified_status(txn, verification),
                                !.category = verification.category,
                                !.sub_category = verification.sub_category,
                                !.is_surety = surety,
                                !.merchant_name = verification.merchant_name,
                                !.transaction_date =
                                    IF @ = NoDate THEN txn.created_at ELSE @]}
                     /\ merchant_mappings' =
                            learn_mapping(merchant_mappings, txn.merchant_name, verification)
                     /\ response' = 200
    /\ UNCHANGED <<next_txn_id, time_time, taxonomyVars, syncVars, now, outsideLedger>>

\* The foreign key transactions.credit_card_id -> credit_cards.id (nullable).
references_card(credit_card_id) ==
    credit_card_id = NoId \/ \E c \in credit_cards : c.id = credit_card_id

\* Transaction(**txn_data) as built by create_manual_transaction.
manual_transaction(id, u, h, data, surety) ==
    [id |-> id, user_id |-> u, raw_content_hash |-> h, amount |-> data.amount,
     merchant_name |-> data.merchant_name, category |-> data.category,
     sub_category |-> data.sub_category, status |-> VERIFIED,
     account_type |-> data.account_type, is_surety |-> surety,
     credit_card_id |-> data.credit_card_id,
     transaction_date |-> data.transaction_date,
     is_manual |-> TRUE, is_settled |-> FALSE, created_at |-> now]

\* POST /transactions/ : time.time() does not go backwards and may read the
\* same value twice.
CreateManualTransaction(u, data) ==
    /\ next_txn_id <= MaxTxns
    /\ \E t \in {time_time, time_time + 1} \cap 0..MaxTxns :
          LET h == sha256(manual_seed(u, t))
          IN  /\ time_time' = t
              /\ IF hash_is_free(h) /\ references_card(data.credit_card_id)
                 THEN \E surety \in {data.is_surety \/ b : b \in resolve_surety(data.sub_category)} :
                        /\ transactions' = transactions \cup
                              {manual_transaction(next_txn_id, u, h, data, surety)}
                        /\ next_txn_id' = next_txn_id + 1
                        /\ response' = 200
                 ELSE /\ response' = 500
                      /\ UNCHANGED <<transactions, next_txn_id>>
    /\ UNCHANGED <<merchant_mappings, taxonomyVars, syncVars, now, outsideLedger>>

\* GET /transactions/{id}
GetTransaction(u, tid) ==
    /\ response' = IF owned_transaction(tid, u) = {} THEN 404 ELSE 200
    /\ UNCHANGED <<ledgerVars, taxonomyVars, syncVars, now, outsideLedger>>

\* PUT /transactions/{id} : every field of the body is written; "is_surety"
\* is always a key of model_dump(), so the stored flag is the body's.
UpdateTransaction(u, tid, data) ==
    /\ IF owned_transaction(tid, u) = {}
       THEN /\ response' = 404
            /\ UNCHANGED transactions
       ELSE IF ~references_card(data.credit_card_id)
       THEN /\ response' = 500
            /\ UNCHANGED transactions
       ELSE LET txn == the_transaction(tid, u)
            IN  /\ transactions' = (transactions \ {txn}) \cup
                      {[txn EXCEPT !.amount = data.amount,
                                   !.merchant_name = data.merchant_name,
                                   !.category = data.category,
                                   !.sub_category = data.sub_category,
                                   !.account_type = data.account_type,
                                   !.credit_card_id = data.credit_card_id,
                                   !.transaction_date = data.transaction_date,
                                   !.is_surety = data.is_surety]}
                /\ response' = 200
    /\ UNCHANGED <<merchant_mappings, next_txn_id, time_time, taxonomyVars, syncVars, now, outsideLedger>>

\* PATCH /transactions/{id}/toggle-settled
ToggleSettled(u, tid) ==
    /\ IF owned_transaction(tid, u) = {}
       THEN /\ response' = 404
            /\ UNCHANGED transactions
       ELSE LET txn == the_transaction(tid, u)
            IN  /\ transactions' = (transactions \ {txn}) \cup
                      {[txn EXCEPT !.is_settled = ~@]}
                /\ response' = 200
    /\ UNCHANGED <<merchant_mappings, next_txn_id, time_time, taxonomyVars, syncVars, now, outsideLedger>>

\* DELETE /transactions/{id}
DeleteTransaction(u, tid) ==
    /\ IF owned_transaction(tid, u) = {}
       THEN /\ response' = 404
            /\ UNCHANGED transactions
       ELSE /\ transactions' = transactions \ owned_transaction(tid, u)
            /\ response' = 204
    /\ UNCHANGED <<merchant_mappings, next_txn_id, time_time, taxonomyVars, syncVars, now, outsideLedger>>

----------------------------------------------------------------------------
(* Bills, credit cards and categories                                      *)

\* Bodies of BillCreate, BillUpdate (the fields set), CreditCardCreate,
\* CreditCardUpdate (the fields set), CategoryCreate, SubCategoryCreate.
BillCreates ==
    {[title |-> "Rent", amount |-> 1500000, due_date |-> 1, is_recurring |-> TRUE,
      recurrence_day |-> 5, category |-> "Housing", sub_category |-> "Rent"]}

BillUpdates == {[amount |-> 1600000, due_date |-> 2]}

CreditCardCreates ==
    {[card_name |-> "HDFC Regalia", last_four_digits |-> "1234",
      statement_date |-> 15, payment_due_date |-> 5, credit_limit |-> 10000000]}

CreditCardUpdates == {[credit_limit |-> 20000000, is_active |-> TRUE]}

CategoryCreates == {[name |-> "Pets", type |-> "EXPENSE"]}

SubCategoryCreates ==
    {[name |-> "Vet", type |-> "EXPENSE", is_surety |-> b, category_id |-> c] :
        b \in {FALSE}, c \in {903, 101}}

\* setattr(row, field, value) for every field of model_dump(exclude_unset=True)
set_fields(row, data) ==
    [f \in DOMAIN row |-> IF f \in DOMAIN data THEN data[f] ELSE row[f]]

\* A lookup that forgets the caller.
any_bill_by_id(bill_id, u) == {b \in bills : b.id = bill_id}

\* BillService.get_bill_by_id
get_bill_by_id(bill_id, u) == {b \in bills : b.id = bill_id /\ b.user_id = u}

\* POST /bills
CreateBill(u, bill_data) ==
    /\ next_id <= MaxOwned
    /\ bills' = bills \cup
          {[id |-> 100 + next_id, user_id |-> u, title |-> bill_data.title,
            amount |-> bill_data.amount, due_date |-> bill_data.due_date,
            is_paid |-> FALSE, is_recurring |-> bill_data.is_recurring,
            recurrence_day |-> bill_data.recurrence_day,
            category |-> bill_data.category,
            sub_category |-> bill_data.sub_category]}
    /\ next_id' = next_id + 1
    /\ response' = 201
    /\ UNCHANGED <<ledgerVars, taxonomyVars, syncVars, credit_cards, now, apart, wealthVars>>

\* GET /bills/{bill_id}
GetBill(u, bill_id) ==
    /\ response' = IF get_bill_by_id(bill_id, u) = {} THEN 404 ELSE 200
    /\ UNCHANGED <<ledgerVars, taxonomyVars, syncVars, accountVars, next_id, now, apart, wealthVars>>

\* PUT /bills/{bill_id}
UpdateBill(u, bill_id, bill_data) ==
    /\ IF get_bill_by_id(bill_id, u) = {}
       THEN /\ response' = 404
            /\ UNCHANGED bills
       ELSE /\ bills' = (bills \ get_bill_by_id(bill_id, u)) \cup
                  {set_fields(b, bill_data) : b \in get_bill_by_id(bill_id, u)}
            /\ response' = 200
    /\ UNCHANGED <<ledgerVars, taxonomyVars, syncVars, credit_cards, next_id, now, apart, wealthVars>>

\* POST /bills/{bill_id}/mark-paid
MarkPaid(u, bill_id, paid) ==
    /\ IF get_bill_by_id(bill_id, u) = {}
       THEN /\ response' = 404
            /\ UNCHANGED bills
       ELSE /\ bills' = (bills \ get_bill_by_id(bill_id, u)) \cup
                  {[b EXCEPT !.is_paid = paid] : b \in get_bill_by_id(bill_id, u)}
            /\ response' = 200
    /\ UNCHANGED <<ledgerVars, taxonomyVars, syncVars, credit_cards, next_id, now, apart, wealthVars>>

\* CreditCardService.get_card_by_id
get_card_by_id(card_id, u) ==
    {c \in credit_cards : c.id = card_id /\ c.user_id = u}

\* CreditCardService.get_user_cards (GET /credit-cards?active_only=...)
get_user_cards(user_id, active_only) ==
    {c \in credit_cards : c.user_id = user_id /\ (active_only => c.is_active)}

\* POST /credit-cards
CreateCard(u, card_data) ==
    /\ next_id <= MaxOwned
    /\ credit_cards' = credit_cards \cup
          {[id |-> 100 + next_id, user_id |-> u, card_name |-> card_data.card_name,
            last_four_digits |-> card_data.last_four_digits,
            statement_date |-> card_data.statement_date,
            payment_due_date |-> card_data.payment_due_date,
            credit_limit |-> card_data.credit_limit, is_active |-> TRUE]}
    /\ next_id' = next_id + 1
    /\ response' = 201
    /\ UNCHANGED <<ledgerVars, taxonomyVars, syncVars, bills, now, apart, wealthVars>>

\* GET /credit-cards/{card_id} and /credit-cards/{card_id}/cycle-info
GetCard(u, card_id) ==
    /\ response' = IF get_card_by_id(card_id, u) = {} THEN 404 ELSE 200
    /\ UNCHANGED <<ledgerVars, taxonomyVars, syncVars, accountVars, next_id, now, apart, wealthVars>>

\* PUT /credit-cards/{card_id}
UpdateCard(u, card_id, card_data) ==
    /\ IF get_card_by_id(card_id, u) = {}
       THEN /\ response' = 404
            /\ UNCHANGED credit_cards
       ELSE /\ credit_cards' = (credit_cards \ get_card_by_id(card_id, u)) \cup
                  {set_fields(c, card_data) : c \in get_card_by_id(card_id, u)}
            /\ response' = 200
    /\ UNCHANGED <<ledgerVars, taxonomyVars, syncVars, bills, next_id, now, apart, wealthVars>>

\* A hard delete in place of the soft one.
RemoveCard(u, card_id) ==
    /\ IF get_card_by_id(card_id, u) = {}
       THEN /\ response' = 404
            /\ UNCHANGED credit_cards
       ELSE /\ credit_cards' = credit_cards \ get_card_by_id(card_id, u)
            /\ response' = 204
    /\ UNCHANGED <<ledgerVars, taxonomyVars, syncVars, bills, next_id, now, apart, wealthVars>>

\* DELETE /credit-cards/{card_id}
DeactivateCard(u, card_id) ==
    /\ IF get_card_by_id(card_id, u) = {}
       THEN /\ response' = 404
            /\ UNCHANGED credit_cards
       ELSE /\ credit_cards' = (credit_cards \ get_card_by_id(card_id, u)) \cup
                  {[c EXCEPT !.is_active = FALSE] : c \in get_card_by_id(card_id, u)}
            /\ response' = 204
    /\ UNCHANGED <<ledgerVars, taxonomyVars, syncVars, bills, next_id, now, apart, wealthVars>>

\* POST /categories/
CreateCategory(u, data) ==
    /\ next_id <= MaxOwned
    /\ categories' = categories \cup
          {[id |-> 100 + next_id, name |-> data.name, user_id |-> u]}
    /\ next_id' = next_id + 1
    /\ response' = 200
    /\ UNCHANGED <<ledgerVars, sub_categories, syncVars, accountVars, now, apart, wealthVars>>

\* POST /categories/sub-categories : category_id is a foreign key and is
\* not checked against the caller.
CreateSubCategory(u, data) ==
    /\ next_id <= MaxOwned
    /\ IF \E c \in categories : c.id = data.category_id
       THEN /\ sub_categories' = sub_categories \cup
                  {[id |-> 100 + next_id, name |-> data.name,
                    is_surety |-> data.is_surety,
                    category_id |-> data.category_id, user_id |-> u]}
            /\ next_id' = next_id + 1
            /\ response' = 200
       ELSE /\ response' = 500
            /\ UNCHANGED <<sub_categories, next_id>>
    /\ UNCHANGED <<ledgerVars, categories, syncVars, accountVars, now, apart, wealthVars>>

\* The same list without the WHERE clause.
get_categories_all(user_id) == categories

\* CategoryService.get_categories (GET /categories/):
\* select(Category).where((user_id == None) | (user_id == user_id))
get_categories(user_id) ==
    {c \in categories : c.user_id = "" \/ c.user_id = user_id}

\* select(Category).where(id == category_id, user_id == user_id)
owned_category(category_id, u) ==
    {c \in categories : c.id = category_id /\ c.user_id = u}

\* DELETE /categories/{category_id} : the relationship cascades the delete
\* to the category's sub-categories.
DeleteCategory(u, category_id) ==
    /\ IF owned_category(category_id, u) = {}
       THEN /\ response' = 404
            /\ UNCHANGED <<categories, sub_categories>>
       ELSE /\ categories' = categories \ owned_category(category_id, u)
            /\ sub_categories' = {s \in sub_categories : s.category_id # category_id}
            /\ response' = 200
    /\ UNCHANGED <<ledgerVars, syncVars, accountVars, next_id, now, apart, wealthVars>>

\* select(SubCategory).where(id == sub_category_id, user_id == user_id)
owned_sub_category(sub_category_id, u) ==
    {x \in sub_categories : x.id = sub_category_id /\ x.user_id = u}

\* DELETE /categories/sub-categories/{sub_category_id}
DeleteSubCategory(u, sub_category_id) ==
    /\ IF owned_sub_category(sub_category_id, u) = {}
       THEN /\ response' = 404
            /\ UNCHANGED sub_categories
       ELSE /\ sub_categories' = sub_categories \ owned_sub_category(sub_category_id, u)
            /\ response' = 200
    /\ UNCHANGED <<ledgerVars, categories, syncVars, accountVars, next_id, now, apart, wealthVars>>

\* Time passes (mail dated now + 1 arrives with it).
Tick ==
    /\ now < MaxTime
    /\ now' = now + 1
    /\ UNCHANGED <<ledgerVars, taxonomyVars, syncVars, response, request, outsideLedger>>

----------------------------------------------------------------------------
(* Authentication middleware and auth router                               *)

\* settings.EXCEPTION_ROUTES, SECRET_KEY, ALGORITHM
EXCEPTION_ROUTES ==
    {"/docs", "/redoc", "/openapi.json", "/api/v1/openapi.json",
     "/api/v1/auth/register", "/api/v1/auth/verify-otp", "/api/v1/auth/token",
     "/api/v1/sync/webhook"}
SECRET_KEY == "SECRET_KEY"
ALGORITHM == "HS256"

\* request.url.path of the requests sent.
Paths ==
    {"/docs", "/docsearch", "/api/v1/auth/verify-otp", "/api/v1/auth/verify",
     "/api/v1/transactions", "/api/v1/sync/webhook/gmail", "/"}

\* The JSON Web Tokens in circulation: compact text, signing key, header
\* algorithm and payload (exp in minutes of utcnow).
Tokens ==
    {[text |-> "valid", key |-> SECRET_KEY, alg |-> ALGORITHM,
      payload |-> [sub |-> "a@x.io", exp |-> 10]],
     [text |-> "early", key |-> SECRET_KEY, alg |-> ALGORITHM,
      payload |-> [sub |-> "a@x.io", exp |-> 5]],
     [text |-> "eternal", key |-> SECRET_KEY, alg |-> ALGORITHM,
      payload |-> [sub |-> "b@x.io"]],
     [text |-> "anonymous", key |-> SECRET_KEY, alg |-> ALGORITHM,
      payload |-> [exp |-> 10]],
     [text |-> "blank", key |-> SECRET_KEY, alg |-> ALGORITHM,
      payload |-> [sub |-> "", exp |-> 10]],
     [text |-> "forged", key |-> "guess", alg |-> ALGORITHM,
      payload |-> [sub |-> "a@x.io", exp |-> 10]],
     [text |-> "unsigned", key |-> "", alg |-> "none",
      payload |-> [sub |-> "a@x.io", exp |-> 10]]}

\* Authorization headers sent ("" is no header).
Authorizations ==
    {"", "Basic valid", "bearer valid", "Bearer", "Bearer ", "Bearer  valid",
     "Bearer garbage", "Bearer valid trailing", "Bearer early trailing"}
        \cup {"Bearer " \o t.text : t \in Tokens}

\* str.startswith
startswith(s, prefix) ==
    Len(prefix) <= Len(s) /\ SubSeq(s, 1, Len(prefix)) = prefix

\* auth_header.split(" ")[1] of a header holding a space
second_field(s) ==
    LET spaces == {i \in 1..Len(s) : SubSeq(s, i, i) = " "}
        first == CHOOSE i \in spaces : \A j \in spaces : i <= j
        later == {i \in spaces : i > first}
        stop == IF later = {} THEN Len(s) + 1
                ELSE CHOOSE i \in later : \A j \in later : i <= j
    IN  SubSeq(s, first + 1, stop - 1)

\* A decoder that does not look at the exp claim.
jwt_decode_any_age(token, t) ==
    {k.payload : k \in {k \in Tokens : k.text = token /\ k.alg = ALGORITHM
                                        /\ k.key = SECRET_KEY}}

\* jwt.decode(token, SECRET_KEY, algorithms=[ALGORITHM]) at time t: the set
\* holding the payload, empty when JWTError is raised.
jwt_decode(token, t) ==
    {k.payload : k \in {k \in Tokens :
        /\ k.text = token
        /\ k.alg = ALGORITHM
        /\ k.key = SECRET_KEY
        /\ ("exp" \in DOMAIN k.payload => ~(k.payload.exp < t))}}

NoDispatch ==
    [path |-> "", authorization |-> "", at |-> 0, handler |-> FALSE,
     status_code |-> 0, user_email |-> ""]

\* AuthenticationMiddleware.dispatch; handler tells whether call_next ran,
\* outcome is the status the route handler answers (500 when it raises).
Dispatch(path, authorization, outcome) ==
    LET entry == [path |-> path, authorization |-> authorization, at |-> utcnow]
        passed(email) == entry @@ [handler |-> TRUE, status_code |-> outcome,
                                   user_email |-> email]
        denied == entry @@ [handler |-> FALSE, status_code |-> 401,
                            user_email |-> ""]
        payload == jwt_decode(second_field(authorization), utcnow)
    IN  /\ dispatch' =
              IF \E route \in EXCEPTION_ROUTES : startswith(path, route)
              THEN passed("")
              ELSE IF authorization = "" \/ ~startswith(authorization, "Bearer ")
              THEN denied
              ELSE IF payload = {} \/ \E c \in payload : "sub" \notin DOMAIN c
              THEN denied
              ELSE passed((CHOOSE c \in payload : TRUE).sub)
        /\ UNCHANGED <<finance, response, authVars, utcnow>>

\* The clock advances.
ClockTick ==
    /\ utcnow + ClockStep <= MaxClock
    /\ utcnow' = utcnow + ClockStep
    /\ UNCHANGED <<finance, response, authVars, dispatch>>

Emails == {"a@x.io", "b@x.io"}
Otps == {"111111", "222222"}
Passwords == {"correct horse", "battery"}
OtpMinutes == 10
NoCode == ""
NoAuthRequest == [op |-> "", email |-> "", secret |-> ""]

\* get_password_hash, verify_password (72 characters are hashed)
get_password_hash(password) ==
    <<"argon2", IF Len(password) <= 72 THEN password
                ELSE SubSeq(password, 1, 72)>>
verify_password(plain_password, hashed_password) ==
    hashed_password = get_password_hash(plain_password)

\* select(User).where(User.email == email)
user_by_email(table, email) == {u \in table : u.email = email}

\* A check that never finds a code too old.
otp_never_expired(user, t) == FALSE

\* datetime.now(timezone.utc) > user.verification_code_expires_at
otp_expired(user, t) ==
    user.verification_code_expires_at # NoDate
        /\ t > user.verification_code_expires_at

\* POST /auth/register; otp is what random.choices draws.
Register(email, password, otp) ==
    LET existing == user_by_email(users, email)
        fresh == [email |-> email,
                  hashed_password |-> get_password_hash(password),
                  is_active |-> FALSE,
                  verification_code |-> otp,
                  verification_code_expires_at |-> utcnow + OtpMinutes]
    IN  /\ IF existing = {}
           THEN users' = users \cup {fresh} /\ response' = 200
           ELSE LET existing_user == CHOOSE u \in existing : TRUE
                IN  IF existing_user.is_active
                    THEN response' = 400 /\ UNCHANGED users
                    ELSE /\ users' = (users \ existing) \cup
                              {[existing_user EXCEPT
                                  !.hashed_password = fresh.hashed_password,
                                  !.verification_code = otp,
                                  !.verification_code_expires_at =
                                      fresh.verification_code_expires_at]}
                         /\ response' = 200
        /\ auth_request' = [op |-> "register", email |-> email, secret |-> otp]
        /\ UNCHANGED <<finance, dispatch, utcnow>>

\* POST /auth/verify-otp; 200 carries the bearer token.
VerifyOtp(email, otp) ==
    LET found == user_by_email(users, email)
        user == CHOOSE u \in found : TRUE
    IN  /\ IF found = {}
           THEN response' = 400 /\ UNCHANGED users
           ELSE IF user.is_active
           THEN response' = 200 /\ UNCHANGED users
           ELSE IF user.verification_code = NoCode
                      \/ user.verification_code # otp
           THEN response' = 400 /\ UNCHANGED users
           ELSE IF otp_expired(user, utcnow)
           THEN response' = 400 /\ UNCHANGED users
           ELSE /\ users' = (users \ found) \cup
                      {[user EXCEPT !.is_active = TRUE,
                                    !.verification_code = NoCode,
                                    !.verification_code_expires_at = NoDate]}
                /\ response' = 200
        /\ auth_request' = [op |-> "verify-otp", email |-> email, secret |-> otp]
        /\ UNCHANGED <<finance, dispatch, utcnow>>

\* POST /auth/token
Login(email, password) ==
    LET found == user_by_email(users, email)
        user == CHOOSE u \in found : TRUE
    IN  /\ response' =
              IF found = {} \/ ~verify_password(password, user.hashed_password)
              THEN 401
              ELSE IF ~user.is_active THEN 400 ELSE 200
        /\ auth_request' = [op |-> "token", email |-> email, secret |-> password]
        /\ UNCHANGED <<finance, dispatch, users, utcnow>>

----------------------------------------------------------------------------
(* Safe-to-spend (analytics/service.py)                                    *)
(*                                                                         *)
(* Dates are day ordinals, 0 being 1 January 2024; the dates of the model  *)
(* lie in 2024.  Decimal values of the calculation count 1/3000 of a       *)
(* rupee, the unit in which total / Decimal("30") is exact (Decimal itself *)
(* rounds that quotient to 28 significant digits).                         *)

\* Decimal of an amount stored in paise
Decimal(paise) == paise * 30

\* f"{value:.0f}": the rupees of a non-negative Decimal, rounded half to even
format_0f(value) ==
    LET q == value \div 3000
        r == value % 3000
    IN  ToString(IF 2 * r > 3000 \/ (2 * r = 3000 /\ q % 2 = 1) THEN q + 1 ELSE q)

\* BillService._calculate_next_recurrence
calculate_next_recurrence(recurrence_day, reference_date) ==
    LET ref == civil(reference_date, 1)
        next_date == date(ref.month, Min2(recurrence_day, monthrange[ref.month]))
    IN  IF next_date >= reference_date THEN next_date
        ELSE IF ref.month = 12 THEN 366 + Min2(recurrence_day, 31) - 1
        ELSE date(ref.month + 1, Min2(recurrence_day, monthrange[ref.month + 1]))

\* BillService.get_projected_surety_bills(days_ahead=30)
get_projected_surety_bills(u, today) ==
    LET surety_subs == {s.name : s \in {s \in sub_categories : s.is_surety}}
    IN  total({b \in bills :
                  /\ b.user_id = u /\ b.is_recurring
                  /\ b.sub_category \in surety_subs
                  /\ b.recurrence_day # 0
                  /\ calculate_next_recurrence(b.recurrence_day, today) <= today + 30
                  /\ ~b.is_paid}, "amount")

RECURSIVE unbilled_over(_)
\* CreditCardService.get_all_unbilled_for_user: get_unbilled_amount summed
\* over the cards given
unbilled_over(cards) ==
    IF cards = {} THEN 0
    ELSE LET card == CHOOSE c \in cards : TRUE
         IN  -total({t \in transactions : t.credit_card_id = card.id
                                           /\ ~t.is_settled}, "amount")
                 + unbilled_over(cards \ {card})

\* CreditCardService.get_unbilled_amount: select sum(amount) where
\* credit_card_id == card_id and is_settled == False, "or 0.00", negated.
get_unbilled_amount(card_id, cycle_start, cycle_end) ==
    -total({t \in transactions : t.credit_card_id = card_id /\ ~t.is_settled},
           "amount")

RECURSIVE total_unbilled(_, _, _)
\* The loop of get_all_unbilled_for_user over the cards given; every card is
\* asked with the cycle dates of today.
total_unbilled(cards, cycle_start, cycle_end) ==
    IF cards = {} THEN 0
    ELSE LET card == CHOOSE c \in cards : TRUE
         IN  get_unbilled_amount(card.id, cycle_start, cycle_end)
                 + total_unbilled(cards \ {card}, cycle_start, cycle_end)

\* CreditCardService.get_all_unbilled_for_user
get_all_unbilled_for_user(user_id, cycle_start, cycle_end) ==
    total_unbilled(get_user_cards(user_id, TRUE), cycle_start, cycle_end)

\* A burden that is the degraded answer whatever happens.
calculate_burden_zero(u, today, fault) ==
    [unpaid_bills |-> 0, projected_surety |-> 0, unbilled_cc |-> 0,
     active_goals |-> 0, total_frozen |-> 0]

\* AnalyticsService.calculate_burden: FrozenFundsBreakdown.  fault tells what
\* the database fails at: "goals" (the goal query), "burden" (a bill or card
\* query), "balance" (a query of the caller) or "none".
calculate_burden(u, today, fault) ==
    LET unpaid_bills == Decimal(total({b \in bills : b.user_id = u /\ ~b.is_paid},
                                      "amount"))
        projected_surety == Decimal(get_projected_surety_bills(u, today))
        unbilled_cc == Decimal(unbilled_over({c \in credit_cards :
                                    c.user_id = u /\ c.is_active}))
        active_goals ==
            IF fault = "goals" THEN 0
            ELSE Decimal(total({g \in goals : g.user_id = u /\ g.is_active},
                               "monthly_contribution"))
    IN  IF fault = "burden"
        THEN [unpaid_bills |-> 0, projected_surety |-> 0, unbilled_cc |-> 0,
              active_goals |-> 0, total_frozen |-> 0]
        ELSE [unpaid_bills |-> unpaid_bills, projected_surety |-> projected_surety,
              unbilled_cc |-> unbilled_cc, active_goals |-> active_goals,
              total_frozen |-> unpaid_bills + projected_surety + unbilled_cc
                                   + active_goals]

\* AnalyticsService.get_monthly_summary: MonthlySummaryResponse in paise
\* (the period label and the year are left out).  A NULL transaction_date
\* satisfies no comparison.
get_monthly_summary(u, target_date, scope) ==
    LET target == civil(target_date, 1)
        start_date == IF scope = "month" THEN date(target.month, 1) ELSE 0
        end_date == IF scope = "month"
                    THEN date(target.month, monthrange[target.month])
                    ELSE date(12, 31)
        in_range == {t \in transactions :
                        /\ t.user_id = u
                        /\ t.transaction_date # NoDate
                        /\ (scope # "all" =>
                               /\ t.transaction_date >= start_date
                               /\ t.transaction_date <= end_date)}
        total_income == total({t \in in_range : t.category = "Income"}, "amount")
        total_expense_raw ==
            Abs(total({t \in in_range : t.category # "Income"}, "amount"))
        prior_period_settlement ==
            Abs(total({t \in in_range : t.sub_category = "Credit Card Payment"},
                      "amount"))
    IN  [total_income |-> total_income,
         total_expense |-> total_expense_raw,
         balance |-> total(in_range, "amount"),
         current_period_expense |-> total_expense_raw - prior_period_settlement,
         prior_period_settlement |-> prior_period_settlement]

\* GET /analytics/summary/ by user u; month 0: no month and year given
MonthlySummary(u, month, scope) ==
    /\ reply' = [op |-> "summary", user_id |-> u, scope |-> scope,
                 body |-> get_monthly_summary(
                              u, IF month # 0 THEN date(month, 1) ELSE now,
                              scope)]
    /\ response' = 200
    /\ UNCHANGED <<ledgerVars, taxonomyVars, syncVars, accountVars, next_id,
                   now, request, goals, safe_to_spend_response, dispatch,
                   authVars, utcnow, wealthVars>>

\* GET /analytics/burden/ by user u
Burden(u, fault) ==
    /\ reply' = [op |-> "burden", user_id |-> u, today |-> now,
                 fault |-> fault, body |-> calculate_burden(u, now, fault)]
    /\ response' = 200
    /\ UNCHANGED <<ledgerVars, taxonomyVars, syncVars, accountVars, next_id,
                   now, request, goals, safe_to_spend_response, dispatch,
                   authVars, utcnow, wealthVars>>

\* The transactions summed into total_discretionary_30d.
discretionary(u, today) ==
    {t \in transactions :
        /\ t.user_id = u
        /\ t.category \notin {"Income", "Investment", "Housing", "Bill Payment",
                              "Transfer", "EMI", "Loan", "Insurance", "Misc"}
        /\ t.sub_category # "Credit Card Payment"
        /\ ~t.is_surety
        /\ Abs(t.amount) <= 500000
        /\ t.transaction_date # NoDate
        /\ t.transaction_date >= today - 30
        /\ t.transaction_date <= today}

\* abs(discretionary_result.scalar() or Decimal("0"))
total_discretionary_30d(u, today) ==
    Abs(total(discretionary(u, today), "amount"))

RECURSIVE sum_abs(_)
\* sum(abs(t.amount) for t in txns)
sum_abs(txns) ==
    IF txns = {} THEN 0
    ELSE LET t == CHOOSE x \in txns : TRUE
         IN  Abs(t.amount) + sum_abs(txns \ {t})

\* AnalyticsService.debug_buffer_Calculation; the rows are a set (their order
\* by amount is not modelled) and daily_average, total / 30, is left out.
debug_buffer_Calculation(user_id, today_date) ==
    LET thirty_days_ago == today_date - 30
        txns ==
            {t \in transactions :
                /\ t.user_id = user_id
                /\ t.category \notin {"Income", "Investment", "Housing",
                                      "Bill Payment", "Transfer", "EMI", "Loan",
                                      "Insurance", "Misc"}
                /\ t.sub_category # "Credit Card Payment"
                /\ t.is_surety = FALSE
                /\ Abs(t.amount) <= 500000
                /\ t.transaction_date # NoDate
                /\ t.transaction_date >= thirty_days_ago
                /\ t.transaction_date <= today_date}
    IN  [total_discretionary_30d |-> sum_abs(txns),
         count |-> Cardinality(txns),
         transactions |-> txns]

\* A selection that has no rule for an empty balance.
advise_without_zero_rule(is_new_user, current_balance, total_frozen, buffer, safe_amount, salary_str) ==
    IF is_new_user \/ safe_amount > 0
    THEN [status |-> "success", recommendation |-> "Welcome!"]
    ELSE [status |-> "critical", recommendation |-> "Overextended."]

\* A selection that looks at the safe amount before the sign of the balance.
advise_by_safe_amount(is_new_user, current_balance, total_frozen, buffer, safe_amount, salary_str) ==
    IF safe_amount = 0
    THEN [status |-> "critical", recommendation |-> "Overextended."]
    ELSE [status |-> "success", recommendation |-> "Healthy!"]

\* The status and recommendation chosen by calculate_safe_to_spend_amount
\* (lines 271-293; the pictographs and the rupee sign are left out).
advise(is_new_user, current_balance, total_frozen, buffer, safe_amount, salary_str) ==
    IF is_new_user
    THEN [status |-> "success",
          recommendation |-> "Welcome! Add your first transaction to start tracking your finances."]
    ELSE IF current_balance < 0
    THEN [status |-> "negative",
          recommendation |-> "Balance is " \o format_0f(Abs(current_balance))
                                 \o " in deficit. Add income to recover."]
    ELSE IF current_balance = 0
    THEN [status |-> "warning",
          recommendation |-> "No liquid balance available. Please add income transactions."]
    ELSE IF safe_amount = 0
    THEN [status |-> "critical",
          recommendation |-> "Overextended by "
                                 \o format_0f(total_frozen + buffer - current_balance)
                                 \o ". Frozen + Buffer exceed balance."]
    ELSE IF 5 * safe_amount < current_balance
    THEN [status |-> "warning",
          recommendation |-> "Low capacity. " \o format_0f(buffer)
                                 \o " reserved till salary (" \o salary_str \o ")"]
    ELSE [status |-> "success",
          recommendation |-> "Healthy! " \o format_0f(buffer)
                                 \o " buffered till salary (" \o salary_str \o ")"]

\* A safe amount that is not capped at zero.
spendable_unfloored(current_balance, total_frozen, buffer) ==
    current_balance - total_frozen - buffer

\* safe_amount of calculate_safe_to_spend_amount (lines 256-261)
spendable(current_balance, total_frozen, buffer) ==
    LET difference == current_balance - total_frozen - buffer
    IN  IF current_balance <= 0 \/ difference < 0 THEN 0 ELSE difference

\* AnalyticsService.calculate_safe_to_spend_amount: SafeToSpendResponse
\* (buffer_percentage, a float for display, is left out)
calculate_safe_to_spend_amount(u, today, fault) ==
    LET civil_today == civil(today, 1)
        days_till_salary ==
            IF civil_today.day = 1 THEN 30
            ELSE monthrange[civil_today.month] - civil_today.day + 1
        frozen_breakdown == calculate_burden(u, today, fault)
        current_balance ==
            Decimal(total({t \in transactions :
                              t.user_id = u
                                  /\ t.account_type \in {"CASH", "SAVINGS"}},
                          "amount"))
        is_new_user == {t \in transactions : t.user_id = u} = {}
        average_buffer == total_discretionary_30d(u, today) * days_till_salary
        buffer == IF current_balance > 0
                  THEN IF average_buffer >= Decimal(50000) THEN average_buffer
                       ELSE Decimal(50000)
                  ELSE 0
        safe == spendable(current_balance, frozen_breakdown.total_frozen,
                          buffer)
        \* strftime("%b %d") of the first of next month
        MonthAbbr == <<"Jan", "Feb", "Mar", "Apr", "May", "Jun", "Jul", "Aug",
                       "Sep", "Oct", "Nov", "Dec", "Jan">>
        salary_str == MonthAbbr[civil_today.month + 1] \o " 01"
        advice == advise(is_new_user, current_balance,
                         frozen_breakdown.total_frozen, buffer, safe,
                         salary_str)
    IN  IF fault = "balance"
        THEN [current_balance |-> 0,
              frozen_funds |-> calculate_burden(u, today, "burden"),
              buffer_amount |-> 0, safe_to_spend |-> 0,
              recommendation |-> "Unable to calculate. Please check system logs.",
              status |-> "warning"]
        ELSE [current_balance |-> current_balance,
              frozen_funds |-> frozen_breakdown,
              buffer_amount |-> buffer, safe_to_spend |-> safe,
              recommendation |-> advice.recommendation,
              status |-> advice.status]

NoAdvice == [user_id |-> "", today |-> NoDate, body |-> <<>>]

\* No read request answered yet.
Unasked == [op |-> ""]

\* GET /analytics/safe-to-spend/ by user u
SafeToSpend(u, fault) ==
    /\ safe_to_spend_response' =
          [user_id |-> u, today |-> now,
           body |-> calculate_safe_to_spend_amount(u, now, fault)]
    /\ response' = 200
    /\ UNCHANGED <<ledgerVars, taxonomyVars, syncVars, accountVars, next_id,
                   now, request, goals, dispatch, authVars, utcnow, wealthVars,
                   reply>>

----------------------------------------------------------------------------
(* Specification of the ledger and the ingestion pipeline                  *)

TxnIds == 1..MaxTxns

\* The empty database on the day `today`.
Started(today) ==
    /\ transactions = {}
    /\ merchant_mappings = {}
    /\ categories = SystemCategories
    /\ sub_categories = SystemSubCategories
    /\ sync_logs = <<>>
    /\ runs = [r \in RunIds |-> IdleRun]
    /\ persisted = [r \in RunIds |-> 0]
    /\ next_txn_id = 1
    /\ now = today
    /\ time_time = 0
    /\ response = NoReply
    /\ request = NoRequest
    /\ bills = {}
    /\ credit_cards = {}
    /\ next_id = 1
    /\ dispatch = NoDispatch
    /\ users = {}
    /\ auth_request = NoAuthRequest
    /\ utcnow = 0
    /\ goals = {}
    /\ safe_to_spend_response = NoAdvice
    /\ reply = Unasked
    /\ holdings = {}
    /\ snapshots = {}
    /\ mapping_rules = {}
    /\ mapped = 0
    /\ imported = {}
    /\ sessions = NoSessions

Init == Started(0)

\* The steps of the execute_sync invocations R (background tasks).
SyncStep(R) ==
    \E r \in R :
        \/ \E u \in Users, source \in {"MANUAL", "WEBHOOK"} : SyncStart(r, u, source)
        \/ SyncFetch(r)
        \/ SyncExtract(r)
        \/ SyncCreate(r)
        \/ SyncLogEnd(r)
        \/ SyncRaise(r)
        \/ SyncExcept(r)

\* PATCH /transactions/{id}/verify requests of the review screen.
Review ==
    \E u \in Users, tid \in TxnIds, v \in VerificationRequests :
        VerifyTransaction(u, tid, v) /\ UNCHANGED request

\* Rows created so far, of any table.
created == (next_txn_id - 1) + (next_id - 1)

\* The access-log entry of a request of user u on the row id.
Logged(u, id) == request' = [user |-> u, id |-> id]

\* The verification bodies sent in SpecOwn.
OwnVerifications == {v \in VerificationRequests : v.merchant_name = "Amazon"}

\* Requests of the transactions router.
LedgerRequest ==
    \E u \in Users :
        \/ \E d \in ManualInputs :
              /\ created < MaxOwned
              /\ CreateManualTransaction(u, d) /\ Logged(u, NoId)
        \/ \E tid \in TxnIds :
              /\ Logged(u, tid)
              /\ \/ GetTransaction(u, tid)
                 \/ \E d \in ManualInputs : UpdateTransaction(u, tid, d)
                 \/ \E v \in OwnVerifications : VerifyTransaction(u, tid, v)
                 \/ ToggleSettled(u, tid)
                 \/ DeleteTransaction(u, tid)

\* Requests of the bills and credit-cards routers.
AccountRequest ==
    \E u \in Users :
        \/ \E d \in BillCreates :
              created < MaxOwned /\ CreateBill(u, d) /\ Logged(u, NoId)
        \/ \E d \in CreditCardCreates :
              created < MaxOwned /\ CreateCard(u, d) /\ Logged(u, NoId)
        \/ \E id \in OwnedIds :
              /\ Logged(u, id)
              /\ \/ GetBill(u, id)
                 \/ \E d \in BillUpdates : UpdateBill(u, id, d)
                 \/ \E paid \in BOOLEAN : MarkPaid(u, id, paid)
        \/ \E id \in OwnedIds :
              /\ Logged(u, id)
              /\ \/ GetCard(u, id)
                 \/ \E d \in CreditCardUpdates : UpdateCard(u, id, d)
                 \/ DeactivateCard(u, id)

\* Requests of the categories router.
TaxonomyRequest ==
    \E u \in Users :
        \/ \E d \in CategoryCreates :
              created < MaxOwned /\ CreateCategory(u, d) /\ Logged(u, NoId)
        \/ \E d \in SubCategoryCreates :
              /\ created < MaxOwned
              /\ CreateSubCategory(u, d) /\ Logged(u, NoId)
        \/ \E id \in OwnedIds \cup {c.id : c \in SystemCategories} :
              DeleteCategory(u, id) /\ Logged(u, id)
        \/ \E id \in OwnedIds \cup {x.id : x \in SystemSubCategories} :
              DeleteSubCategory(u, id) /\ Logged(u, id)

\* Authenticated users working on their own and on each other's rows.
NextOwn == LedgerRequest \/ AccountRequest \/ TaxonomyRequest

SpecOwn == Init /\ [][NextOwn]_vars

\* Bodies of ManualTransactionCreate and TransactionUpdate sent in SpecCards:
\* a purchase on the first card and a purchase from the savings account.
CardInputs ==
    {[amount |-> -50000, merchant_name |-> "Cafe", category |-> "Food",
      sub_category |-> "Dining", account_type |-> "CREDIT_CARD",
      credit_card_id |-> 101, transaction_date |-> 0, is_surety |-> FALSE],
     [amount |-> -20000, merchant_name |-> "Cafe", category |-> "Food",
      sub_category |-> "Dining", account_type |-> "SAVINGS",
      credit_card_id |-> NoId, transaction_date |-> 0, is_surety |-> FALSE]}

\* The user who records purchases in SpecCards, and the CreditCardUpdate
\* sent there (a reactivation).
Spenders == {"u1"}
CardReactivations == {[is_active |-> TRUE]}

\* Requests of the transactions router about card purchases.
CardLedgerRequest ==
    \E u \in Spenders :
        \/ \E d \in CardInputs :
              CreateManualTransaction(u, d) /\ Logged(u, NoId)
        \/ \E tid \in TxnIds :
              /\ Logged(u, tid)
              /\ \/ \E d \in CardInputs : UpdateTransaction(u, tid, d)
                 \/ ToggleSettled(u, tid)
                 \/ DeleteTransaction(u, tid)

\* Requests of the credit-cards router.
CardRequest ==
    \E u \in Users :
        \/ \E d \in CreditCardCreates : CreateCard(u, d) /\ Logged(u, NoId)
        \/ \E id \in OwnedIds :
              /\ Logged(u, id)
              /\ \/ GetCard(u, id)
                 \/ \E d \in CardReactivations : UpdateCard(u, id, d)
                 \/ DeactivateCard(u, id)

\* Users keeping credit cards and the purchases made with them.
NextCards == CardLedgerRequest \/ CardRequest

SpecCards == Init /\ [][NextCards]_vars

\* One ingestion run interleaved with the user's review of its results.
Next == SyncStep({1}) \/ Review \/ Tick

Spec == Init /\ [][Next]_vars

\* POST /transactions/ requests of the entry form.
ManualEntry ==
    \E u \in Users, d \in ManualInputs :
        CreateManualTransaction(u, d) /\ UNCHANGED request

\* One ingestion run interleaved with manual entries.
NextManual == SyncStep({1}) \/ ManualEntry \/ Tick

SpecManual == Init /\ [][NextManual]_vars

\* JSON bodies of PUT /transactions/{id}: a move to Housing / Rent that
\* leaves is_surety out, the same with is_surety given, and a move to
\* Shopping / Online-Shopping with is_surety given.
UpdateBodies ==
    {[amount |-> -1500000, merchant_name |-> "Landlord", category |-> "Housing",
      sub_category |-> "Rent", transaction_date |-> 0],
     [amount |-> -1500000, merchant_name |-> "Landlord", category |-> "Housing",
      sub_category |-> "Rent", transaction_date |-> 0, is_surety |-> TRUE],
     [amount |-> -1500000, merchant_name |-> "Landlord", category |-> "Shopping",
      sub_category |-> "Online-Shopping", transaction_date |-> 0,
      is_surety |-> TRUE]}

\* ManualTransactionCreate(**body).model_dump(): every field of the schema,
\* the ones the body leaves out with their defaults.
model_dump(body) ==
    LET defaults == [account_type |-> "SAVINGS", credit_card_id |-> NoId,
                     is_surety |-> FALSE]
    IN  [f \in DOMAIN body \cup DOMAIN defaults |->
            IF f \in DOMAIN body THEN body[f] ELSE defaults[f]]

\* PUT /transactions/{id} requests of the edit form.
Edit ==
    \E u \in Users, tid \in TxnIds, body \in UpdateBodies :
        UpdateTransaction(u, tid, model_dump(body)) /\ UNCHANGED request

\* Manual entries and their later edits.
NextEdit == ManualEntry \/ Edit \/ Tick

SpecEdit == Init /\ [][NextEdit]_vars

\* Answers of call_brain_api about one merchant: every transaction_type (a
\* string the LLM may also get wrong), an amount of either sign or zero, an
\* expense or an income category.
SignExtractions ==
    {[amount |-> a, merchant_name |-> "AMZN*123", category |-> c.category,
      sub_category |-> c.sub_category, account_type |-> "SAVINGS",
      transaction_type |-> type] :
        a \in {25000, -25000, 0},
        c \in {[category |-> "Shopping", sub_category |-> "Online-Shopping"],
                [category |-> "Income", sub_category |-> "Salary"]},
        type \in {"DEBIT", "CREDIT", "TRANSFER"}}

\* The loop body with those answers.
SyncExtractSigned(r) == SyncExtractFrom(r, SignExtractions)

\* Bodies of VerificationRequest that file the merchant under Income or
\* under Shopping.
SignVerifications ==
    {[category |-> "Income", sub_category |-> "Salary",
      merchant_name |-> "Amazon Refunds", approved |-> TRUE],
     [category |-> "Shopping", sub_category |-> "Online-Shopping",
      merchant_name |-> "Amazon", approved |-> TRUE]}

\* PATCH /transactions/{id}/verify requests of the user being synced.
Recategorise ==
    \E tid \in TxnIds, v \in SignVerifications :
        VerifyTransaction("u1", tid, v) /\ UNCHANGED request

\* One ingestion run of u1 over every kind of extraction, with u1's review.
NextSign ==
    \/ SyncStart(1, "u1", "MANUAL")
    \/ SyncFetch(1)
    \/ SyncExtractSigned(1)
    \/ SyncCreate(1)
    \/ SyncLogEnd(1)
    \/ SyncRaise(1)
    \/ SyncExcept(1)
    \/ Recategorise
    \/ Tick

SpecSign == Init /\ [][NextSign]_vars

\* The answers of call_brain_api that carry an amount.
PaidExtractions == {e \in Extractions : e.amount # 0}

RECURSIVE newest_success(_, _)
\* The rows of sync_logs that a later _get_last_sync_time can still answer
\* with: of each user the SUCCESS row with the greatest start_time (the first
\* k rows are looked at).
newest_success(logs, k) ==
    IF k = 0 THEN <<>>
    ELSE LET kept == newest_success(logs, k - 1)
             row == logs[k]
         IN  IF row.status # "SUCCESS" THEN kept
             ELSE IF \E j \in 1..Len(logs) :
                        /\ logs[j].user_id = row.user_id
                        /\ logs[j].status = "SUCCESS"
                        /\ \/ logs[j].start_time > row.start_time
                           \/ logs[j].start_time = row.start_time /\ j > k
             THEN kept
             ELSE Append(kept, row)

\* execute_sync has returned (or was left by an exception) and the worker
\* takes the next trigger.  Only the log rows _get_last_sync_time can still
\* answer with are kept in the table of the model, which keeps it finite
\* under runs without end; no other row is ever read by the ingestion.
SyncAgain(r) ==
    /\ runs[r].pc \in {"done", "raised"}
    /\ runs' = [runs EXCEPT ![r] = IdleRun]
    /\ sync_logs' = newest_success(sync_logs, Len(sync_logs))
    /\ UNCHANGED <<ledgerVars, taxonomyVars, persisted, now, response, request,
                   outsideLedger>>

\* The mailbox answered the list call of run r.
SyncFetchAnswered(r) ==
    /\ SyncFetch(r)
    /\ runs'[r].messages =
           fetch_gmail_changes(runs[r].user, get_last_sync_time(runs[r].user))

\* Sync runs of u1 without end, every message carrying an amount.
NextRepeat ==
    \/ SyncStart(1, "u1", "MANUAL")
    \/ SyncFetch(1)
    \/ SyncExtractFrom(1, PaidExtractions)
    \/ SyncCreate(1)
    \/ SyncLogEnd(1)
    \/ SyncAgain(1)
    \/ Tick

\* Runs are triggered again and again, the clock advances, the database
\* answers every statement, and the mailbox answers again and again.
SpecRepeat ==
    /\ Init
    /\ [][NextRepeat]_vars
    /\ WF_vars(Tick)
    /\ SF_vars(SyncStart(1, "u1", "MANUAL"))
    /\ SF_vars(SyncFetchAnswered(1))
    /\ SF_vars(SyncExtractFrom(1, PaidExtractions))
    /\ SF_vars(SyncCreate(1))
    /\ SF_vars(SyncLogEnd(1))
    /\ SF_vars(SyncAgain(1))

\* The same runs when the mailbox always answers.
NextRepeatAnswered ==
    \/ SyncStart(1, "u1", "MANUAL")
    \/ SyncFetchAnswered(1)
    \/ SyncExtractFrom(1, PaidExtractions)
    \/ SyncCreate(1)
    \/ SyncLogEnd(1)
    \/ SyncAgain(1)
    \/ Tick

SpecRepeatAnswered ==
    /\ Init
    /\ [][NextRepeatAnswered]_vars
    /\ WF_vars(Tick)
    /\ SF_vars(SyncStart(1, "u1", "MANUAL"))
    /\ SF_vars(SyncFetchAnswered(1))
    /\ SF_vars(SyncExtractFrom(1, PaidExtractions))
    /\ SF_vars(SyncCreate(1))
    /\ SF_vars(SyncLogEnd(1))
    /\ SF_vars(SyncAgain(1))

\* POST /transactions/ bodies of a user who names a merchant of another
\* user's mails (merchant_name is free text).
ForeignInputs ==
    {[amount |-> -50000, merchant_name |-> "AMZN*123", category |-> "Shopping",
      sub_category |-> "Online-Shopping", account_type |-> "SAVINGS",
      credit_card_id |-> NoId, transaction_date |-> 0, is_surety |-> FALSE]}

\* POST /transactions/ requests of u2.
ForeignEntry ==
    \E d \in ForeignInputs :
        CreateManualTransaction("u2", d) /\ UNCHANGED request

\* PATCH /transactions/{id}/verify requests of u2, who files the merchant
\* under Income or under Shopping.
ForeignReview ==
    \E tid \in TxnIds, v \in SignVerifications :
        VerifyTransaction("u2", tid, v) /\ UNCHANGED request

\* The ingestion run of u1, who verifies nothing.
IngestAlone ==
    \/ SyncStart(1, "u1", "MANUAL")
    \/ SyncFetch(1)
    \/ SyncExtractFrom(1, PaidExtractions)
    \/ SyncCreate(1)
    \/ SyncLogEnd(1)
    \/ SyncRaise(1)
    \/ SyncExcept(1)

\* u1's mails are ingested while u2 enters and verifies transactions.
NextApart ==
    \/ SyncStart(1, "u1", "MANUAL")
    \/ SyncFetch(1)
    \/ SyncExtractFrom(1, PaidExtractions)
    \/ SyncCreate(1)
    \/ SyncLogEnd(1)
    \/ SyncRaise(1)
    \/ SyncExcept(1)
    \/ ForeignEntry
    \/ ForeignReview
    \/ Tick

SpecApart == Init /\ [][NextApart]_vars

\* The same executions without u2's verify operations.
NextUnverified == IngestAlone \/ ForeignEntry \/ Tick

SpecUnverified == Init /\ [][NextUnverified]_vars

\* calendar.isleap
isleap(year) == year % 4 = 0 /\ (year % 100 # 0 \/ year % 400 = 0)

\* calendar.monthrange(year, month)[1]
days_in_month(year, month) ==
    IF month = 2 THEN (IF isleap(year) THEN 29 ELSE 28)
    ELSE IF month \in {4, 6, 9, 11} THEN 30 ELSE 31

\* datetime.date(year, month, day); the callers clamp the day beforehand.
Date(year, month, day) == [year |-> year, month |-> month, day |-> day]

\* date.toordinal(): days since 1 January of year 1, that day being 1.
toordinal(d) ==
    LET y == d.year - 1
        before_year == y * 365 + y \div 4 - y \div 100 + y \div 400
        before_month ==
            <<0, 31, 59, 90, 120, 151, 181, 212, 243, 273, 304, 334>>[d.month]
                + (IF d.month > 2 /\ isleap(d.year) THEN 1 ELSE 0)
    IN  before_year + before_month + d.day

\* d + timedelta(days=1)
tomorrow(d) ==
    IF d.day < days_in_month(d.year, d.month) THEN Date(d.year, d.month, d.day + 1)
    ELSE IF d.month < 12 THEN Date(d.year, d.month + 1, 1)
    ELSE Date(d.year + 1, 1, 1)

\* A recurrence that always looks at the month of the reference date.
next_recurrence_this_month(recurrence_day, reference_date) ==
    Date(reference_date.year, reference_date.month,
         Min2(recurrence_day,
              days_in_month(reference_date.year, reference_date.month)))

\* BillService._calculate_next_recurrence on calendar dates of any year
\* (date() cannot raise: the day is clamped to the month).
next_recurrence(recurrence_day, reference_date) ==
    LET next_date ==
            Date(reference_date.year, reference_date.month,
                 Min2(recurrence_day,
                      days_in_month(reference_date.year, reference_date.month)))
        next_month == IF reference_date.month = 12 THEN 1
                      ELSE reference_date.month + 1
        next_year == IF reference_date.month = 12 THEN reference_date.year + 1
                     ELSE reference_date.year
    IN  IF toordinal(next_date) >= toordinal(reference_date) THEN next_date
        ELSE Date(next_year, next_month,
                  Min2(recurrence_day, days_in_month(next_year, next_month)))

\* A billing cycle that always ends in the month of the reference date.
get_billing_cycle_of_month(statement_date, reference_date) ==
    LET current_month_statement ==
            Date(reference_date.year, reference_date.month,
                 Min2(statement_date,
                      days_in_month(reference_date.year, reference_date.month)))
        prev_month == IF reference_date.month = 1 THEN 12
                      ELSE reference_date.month - 1
        prev_year == IF reference_date.month = 1 THEN reference_date.year - 1
                     ELSE reference_date.year
    IN  [cycle_start |->
             tomorrow(Date(prev_year, prev_month,
                           Min2(statement_date,
                                days_in_month(prev_year, prev_month)))),
         cycle_end |-> current_month_statement,
         next_statement_date |-> current_month_statement,
         days_until_statement |->
             toordinal(current_month_statement) - toordinal(reference_date)]

\* finance_utils.get_billing_cycle_dates
get_billing_cycle_dates(statement_date, reference_date) ==
    LET current_month_statement ==
            Date(reference_date.year, reference_date.month,
                 Min2(statement_date,
                      days_in_month(reference_date.year, reference_date.month)))
        prev_month == IF reference_date.month = 1 THEN 12
                      ELSE reference_date.month - 1
        prev_year == IF reference_date.month = 1 THEN reference_date.year - 1
                     ELSE reference_date.year
        next_month == IF reference_date.month = 12 THEN 1
                      ELSE reference_date.month + 1
        next_year == IF reference_date.month = 12 THEN reference_date.year + 1
                     ELSE reference_date.year
        following_statement ==
            Date(next_year, next_month,
                 Min2(statement_date, days_in_month(next_year, next_month)))
    IN  IF toordinal(reference_date) <= toordinal(current_month_statement)
        THEN [cycle_start |->
                  tomorrow(Date(prev_year, prev_month,
                                Min2(statement_date,
                                     days_in_month(prev_year, prev_month)))),
              cycle_end |-> current_month_statement,
              next_statement_date |-> current_month_statement,
              days_until_statement |->
                  toordinal(current_month_statement) - toordinal(reference_date)]
        ELSE [cycle_start |-> tomorrow(current_month_statement),
              cycle_end |-> following_statement,
              next_statement_date |-> following_statement,
              days_until_statement |->
                  toordinal(following_statement) - toordinal(reference_date)]

\* The reference dates asked about: every day of FirstYear..LastYear.
ReferenceDates ==
    {d \in [year : FirstYear..LastYear, month : 1..12, day : 1..31] :
        d.day <= days_in_month(d.year, d.month)}

\* A question about a day of the month (recurrence_day of a bill,
\* statement_date of a card; both schemas admit 1..31) on a reference date.
InitCalendar ==
    /\ \E day \in 1..31, reference_date \in ReferenceDates :
          reply = [op |-> "asked", day |-> day, reference_date |-> reference_date]
    /\ transactions = {}
    /\ merchant_mappings = {}
    /\ categories = SystemCategories
    /\ sub_categories = SystemSubCategories
    /\ sync_logs = <<>>
    /\ runs = [r \in RunIds |-> IdleRun]
    /\ persisted = [r \in RunIds |-> 0]
    /\ next_txn_id = 1
    /\ now = 0
    /\ time_time = 0
    /\ response = NoReply
    /\ request = NoRequest
    /\ bills = {}
    /\ credit_cards = {}
    /\ next_id = 1
    /\ dispatch = NoDispatch
    /\ users = {}
    /\ auth_request = NoAuthRequest
    /\ utcnow = 0
    /\ goals = {}
    /\ safe_to_spend_response = NoAdvice
    /\ holdings = {}
    /\ snapshots = {}
    /\ mapping_rules = {}
    /\ mapped = 0
    /\ imported = {}
    /\ sessions = NoSessions

\* The next occurrence of the bill is computed.
NextRecurrence ==
    /\ reply.op = "asked"
    /\ reply' = [op |-> "next_recurrence", day |-> reply.day,
                 reference_date |-> reply.reference_date,
                 body |-> next_recurrence(reply.day, reply.reference_date)]
    /\ UNCHANGED <<ledgerVars, taxonomyVars, syncVars, accountVars, next_id, now,
                   request, response, wealthVars, dispatch, authVars, utcnow,
                   goals, safe_to_spend_response>>

\* The billing cycle of the card is computed (GET /credit-cards/{id}/cycle-info).
BillingCycle ==
    /\ reply.op = "asked"
    /\ reply' = [op |-> "billing_cycle", day |-> reply.day,
                 reference_date |-> reply.reference_date,
                 body |-> get_billing_cycle_dates(reply.day, reply.reference_date)]
    /\ UNCHANGED <<ledgerVars, taxonomyVars, syncVars, accountVars, next_id, now,
                   request, response, wealthVars, dispatch, authVars, utcnow,
                   goals, safe_to_spend_response>>

NextCalendar == NextRecurrence \/ BillingCycle

SpecCalendar == InitCalendar /\ [][NextCalendar]_vars

\* Ingestion runs interleaved with each other.
NextSync == SyncStep(RunIds) \/ Tick

SpecSync == Init /\ [][NextSync]_vars

----------------------------------------------------------------------------
(* Properties of the ingestion pipeline (SpecSync)                         *)

\* The messages of the mailboxes.
Messages == UNION {Mailbox[u] : u \in Users}

\* C1: ingestion dedup.  However the sync runs of a user interleave and
\* whatever triggered them, the ledger never holds two transactions with the
\* content hash of one (message id, internal date) pair, no run removes a
\* transaction, and a run whose dedup lookup finds the hash stored moves on
\* to the next message without creating anything.
C1_AtMostOnePerMessage ==
    /\ [](\A m \in Messages :
             Cardinality(get_transaction_by_hash(content_hash(m))) <= 1)
    /\ [][/\ transactions \subseteq transactions'
           /\ \A r \in RunIds :
                 (/\ SyncExtract(r)
                  /\ get_transaction_by_hash(content_hash(Head(runs[r].messages))) # {})
                 => /\ transactions' = transactions
                    /\ runs'[r].pc = "loop"
                    /\ runs'[r].messages = Tail(runs[r].messages)
                    /\ runs'[r].processed_count = runs[r].processed_count]_vars

\* C1 witness: two runs of one user have both met message m1; the first
\* stored it, the second was refused by the unique index, and one
\* transaction carries the hash.
C1_Witness ==
    \E r1, r2 \in RunIds :
        /\ r1 # r2
        /\ runs[r1].user = runs[r2].user
        /\ persisted[r1] = 1
        /\ runs[r2].pc = "except"
        /\ runs[r2].error = "IntegrityError"
        /\ Cardinality(get_transaction_by_hash(
               content_hash([id |-> "m1", internalDate |-> 0]))) = 1

RECURSIVE committed_by(_)
\* The number of transactions the invocations R have committed.
committed_by(R) ==
    IF R = {} THEN 0
    ELSE LET r == CHOOSE x \in R : TRUE
         IN  persisted[r] + committed_by(R \ {r})

\* The sync log an invocation opened.
log_of(r) == sync_logs[runs[r].log]

\* C8: sync log lifecycle.  Every started run has opened exactly one log of
\* its own; the log is IN_PROGRESS while the run is inside execute_sync; when
\* the run has returned the log is SUCCESS with records_processed equal to
\* the number of transactions the run committed (no exception occurred), or
\* FAILED with the exception's message; everything any run committed is
\* still stored; a SUCCESS or FAILED log never changes again.
C8_SyncLogLifecycle ==
    /\ [](/\ Len(sync_logs) = Cardinality({r \in RunIds : runs[r].pc # "idle"})
          /\ \A r \in RunIds : runs[r].pc # "idle" =>
                /\ runs[r].log \in 1..Len(sync_logs)
                /\ log_of(r).user_id = runs[r].user
                /\ log_of(r).trigger_source = runs[r].source
                /\ \A q \in RunIds \ {r} : runs[q].pc # "idle" => runs[q].log # runs[r].log
          /\ \A r \in RunIds : runs[r].pc \in {"fetch", "loop", "create", "except"} =>
                log_of(r).status = "IN_PROGRESS"
          /\ \A r \in RunIds : runs[r].pc = "done" =>
                IF runs[r].error = ""
                THEN /\ log_of(r).status = "SUCCESS"
                     /\ log_of(r).records_processed = persisted[r]
                     /\ log_of(r).error_message = ""
                ELSE /\ log_of(r).status = "FAILED"
                     /\ log_of(r).error_message = runs[r].error
          /\ Cardinality(transactions) = committed_by(RunIds))
    /\ [][\A i \in 1..Len(sync_logs) :
             sync_logs[i].status \in {"SUCCESS", "FAILED"} =>
                 /\ Len(sync_logs') >= i
                 /\ sync_logs'[i] = sync_logs[i]]_vars

\* C8 witness: one run returned with SUCCESS and a count of one, another
\* run committed a transaction, then failed and returned with FAILED; both
\* transactions are stored.
C8_Witness ==
    \E r1, r2 \in RunIds :
        /\ runs[r1].pc = "done" /\ log_of(r1).status = "SUCCESS"
        /\ log_of(r1).records_processed = 1
        /\ runs[r2].pc = "done" /\ log_of(r2).status = "FAILED"
        /\ log_of(r2).error_message = "OperationalError"
        /\ persisted[r2] = 1
        /\ Cardinality(transactions) = 2

----------------------------------------------------------------------------
(* Properties of ingestion under review (Spec)                             *)

\* C2: status transitions.  A step changes the status of a stored
\* transaction only from PENDING, and only to VERIFIED or REJECTED, so a
\* VERIFIED or REJECTED transaction keeps its status.
C2_StatusSetOnce ==
    [][\A t \in transactions : \A t2 \in transactions' :
          (t2.id = t.id /\ t2.status # t.status) =>
              /\ t.status = PENDING
              /\ t2.status \in {VERIFIED, REJECTED}]_vars

\* A step is a successful approval of u's pending transaction tid with body v.
Approves(u, tid, v) ==
    /\ v.approved
    /\ owned_transaction(tid, u) # {}
    /\ the_transaction(tid, u).status = PENDING
    /\ VerifyTransaction(u, tid, v)
    /\ response' = 200

\* After the step exactly one mapping is keyed by key and it holds the
\* display name, category and sub-category of the body v.
LearnedUnder(key, v) ==
    /\ Cardinality({m \in merchant_mappings' : m.raw_merchant = key}) = 1
    /\ \A m \in merchant_mappings' : m.raw_merchant = key =>
          /\ m.display_name = v.merchant_name
          /\ m.default_category = v.category
          /\ m.default_sub_category = v.sub_category

\* An ingestion whose lookup finds a mapping for the extracted merchant
\* stages, and then persists, the mapping's category and sub-category.
IngestionUsesMapping ==
    \A r \in RunIds :
        /\ (SyncExtract(r) /\ runs'[r].pc = "create") =>
              \A m \in get_merchant_mapping(runs'[r].txn.merchant_name) :
                  /\ runs'[r].txn.category = m.default_category
                  /\ runs'[r].txn.sub_category = m.default_sub_category
        /\ (SyncCreate(r) /\ persisted'[r] = persisted[r] + 1) =>
              \E t \in transactions' \ transactions :
                  /\ t.merchant_name = runs[r].txn.merchant_name
                  /\ t.category = runs[r].txn.category
                  /\ t.sub_category = runs[r].txn.sub_category

NextGate ==
    \/ \E path \in Paths, authorization \in Authorizations,
          outcome \in {200, 500} : Dispatch(path, authorization, outcome)
    \/ ClockTick

SpecGate == Init /\ [][NextGate]_vars

\* Requests to the auth router while the clock runs.
NextAuth ==
    \/ \E email \in Emails, otp \in Otps :
          Register(email, "correct horse", otp)
    \/ \E email \in Emails, otp \in Otps : VerifyOtp(email, otp)
    \/ \E email \in Emails, password \in Passwords : Login(email, password)
    \/ ClockTick

SpecAuth == Init /\ [][NextAuth]_vars


\* Requests of u1 to the wealth router.
WealthRequest ==
    \/ \E data \in HoldingCreates, quote \in Quotes :
          CreateHolding("u1", data, quote)
    \/ \E tid \in TxnIds, holding \in holdings, create_rule \in BOOLEAN,
          quote \in Quotes :
          MapTransaction(tid, holding.id, create_rule, quote)
    \/ \E statement \in CamsRequests : ImportCams("u1", statement)

\* The empty database on 1 February 2024.
InitWealth == Started(31)

\* Two purchases of u1 to be mapped, entered by hand.
RaceInputs ==
    [amount : {-20000}, merchant_name : {"Fund House"}, category : {"Investment"},
     sub_category : {"Mutual Funds"}, account_type : {"SAVINGS"},
     credit_card_id : {NoId}, transaction_date : {0, 31}, is_surety : {FALSE}]

\* 1 February 2024: u1 has entered two purchases and holds no investment yet.
InitRace ==
    /\ now = 31
    /\ \E first \in RaceInputs, second \in RaceInputs :
          transactions =
              {manual_transaction(1, "u1", sha256(manual_seed("u1", 1)),
                                  first, FALSE),
               manual_transaction(2, "u1", sha256(manual_seed("u1", 2)),
                                  second, FALSE)}
    /\ next_txn_id = 3
    /\ time_time = 2
    /\ merchant_mappings = {}
    /\ categories = SystemCategories
    /\ sub_categories = SystemSubCategories
    /\ sync_logs = <<>>
    /\ runs = [r \in RunIds |-> IdleRun]
    /\ persisted = [r \in RunIds |-> 0]
    /\ response = NoReply
    /\ request = NoRequest
    /\ bills = {}
    /\ credit_cards = {}
    /\ next_id = 1
    /\ dispatch = NoDispatch
    /\ users = {}
    /\ auth_request = NoAuthRequest
    /\ utcnow = 0
    /\ goals = {}
    /\ safe_to_spend_response = NoAdvice
    /\ reply = Unasked
    /\ holdings = {}
    /\ snapshots = {}
    /\ mapping_rules = {}
    /\ mapped = 0
    /\ imported = {}
    /\ sessions = NoSessions

\* u1 opens a holding; then the two purchases are mapped onto it by two
\* requests whose awaits interleave.
NextRace ==
    \/ \E data \in HoldingCreates, quote \in Quotes :
          /\ \A i \in SessionIds : sessions.open[i].pc = "idle"
          /\ CreateHolding("u1", data, quote)
    \/ \E i \in SessionIds, holding \in holdings, quote \in Quotes :
          SessionLoad(i, i, holding.id, quote)
    \/ \E i \in SessionIds : SessionRecalculate(i)
    \/ \E i \in SessionIds : SessionCommit(i)

SpecRace == InitRace /\ [][NextRace]_vars

\* POST /wealth/map-transaction as routed: current_user is resolved from the
\* token and handed to nothing; the service receives the payload alone.
map_transaction(current_user, payload, quote) ==
    MapTransaction(payload.transaction_id, payload.holding_id,
                   payload.create_rule, quote)

\* The payloads of POST /wealth/map-transaction (schemas.MapTransactionRequest).
MapTransactionRequests ==
    [transaction_id : TxnIds, holding_id : {h.id : h \in holdings},
     create_rule : BOOLEAN]

\* Holdings of either user, one ingestion of the mailbox of u1, and
\* map-transaction requests of either user.
NextMap ==
    \/ \E u \in Users, data \in HoldingCreates, quote \in Quotes :
          CreateHolding(u, data, quote)
    \/ \E current_user \in Users, payload \in MapTransactionRequests,
          quote \in Quotes :
          map_transaction(current_user, payload, quote)
    \/ SyncStart(1, "u1", "MANUAL")
    \/ SyncFetch(1)
    \/ SyncExtract(1)
    \/ SyncCreate(1)

SpecMap == InitWealth /\ [][NextMap]_vars


\* Wealth requests, the price job and one ingestion of the mailbox of u1.
NextWealth ==
    \/ WealthRequest
    \/ SyncAllHoldingsPrices
    \/ SyncStart(1, "u1", "MANUAL")
    \/ SyncFetch(1)
    \/ SyncExtract(1)
    \/ SyncCreate(1)

SpecWealth == InitWealth /\ [][NextWealth]_vars

\* Any books of u1 (manual transactions, bills, a card, a goal), none of u2.
InitBudget ==
    LET BudgetInputs ==
        <<[amount |-> -50000, merchant_name |-> "Cafe", category |-> "Food",
          sub_category |-> "Dining", account_type |-> "SAVINGS",
          credit_card_id |-> NoId, transaction_date |-> 0, is_surety |-> FALSE],
         [amount |-> 50000, merchant_name |-> "Refund", category |-> "Shopping",
          sub_category |-> "Online-Shopping", account_type |-> "CASH",
          credit_card_id |-> NoId, transaction_date |-> 0, is_surety |-> FALSE],
         [amount |-> 300000, merchant_name |-> "Employer", category |-> "Income",
          sub_category |-> "Salary", account_type |-> "SAVINGS",
          credit_card_id |-> NoId, transaction_date |-> 0, is_surety |-> FALSE],
         [amount |-> -30000, merchant_name |-> "Bookshop", category |-> "Shopping",
          sub_category |-> "Online-Shopping", account_type |-> "CREDIT_CARD",
          credit_card_id |-> 101, transaction_date |-> 0, is_surety |-> FALSE]>>
        BudgetTransactions ==
        {manual_transaction(i, "u1", sha256(manual_seed("u1", i)),
                            BudgetInputs[i], FALSE) : i \in DOMAIN BudgetInputs}
        BudgetBills ==
        {[id |-> 102, user_id |-> "u1", title |-> "Power", amount |-> 240000,
          due_date |-> 3, is_paid |-> FALSE, is_recurring |-> FALSE,
          recurrence_day |-> 0, category |-> "Bills & Utilities",
          sub_category |-> "Electricity"],
         [id |-> 103, user_id |-> "u1", title |-> "Rent", amount |-> 150000,
          due_date |-> 4, is_paid |-> FALSE, is_recurring |-> TRUE,
          recurrence_day |-> 31, category |-> "Housing", sub_category |-> "Rent"]}
        BudgetCards ==
        {[id |-> 101, user_id |-> "u1", card_name |-> "HDFC Regalia",
          last_four_digits |-> "1234", statement_date |-> 15,
          payment_due_date |-> 5, credit_limit |-> 10000000, is_active |-> TRUE]}
        BudgetGoals ==
        {[id |-> 104, user_id |-> "u1", name |-> "Holiday",
          monthly_contribution |-> 10000, is_active |-> TRUE]}
    IN  /\ now = 0
        /\ transactions \in SUBSET BudgetTransactions
        /\ bills \in SUBSET BudgetBills
        /\ credit_cards \in SUBSET BudgetCards
        /\ goals \in SUBSET BudgetGoals
        /\ merchant_mappings = {}
        /\ categories = SystemCategories
        /\ sub_categories = SystemSubCategories
        /\ sync_logs = <<>>
        /\ runs = [r \in RunIds |-> IdleRun]
        /\ persisted = [r \in RunIds |-> 0]
        /\ next_txn_id = Len(BudgetInputs) + 1
        /\ time_time = Len(BudgetInputs)
        /\ response = NoReply
        /\ request = NoRequest
        /\ next_id = 5
        /\ dispatch = NoDispatch
        /\ users = {}
        /\ auth_request = NoAuthRequest
        /\ utcnow = 0
        /\ safe_to_spend_response = NoAdvice
        /\ reply = Unasked
        /\ holdings = {}
        /\ snapshots = {}
        /\ mapping_rules = {}
        /\ mapped = 0
        /\ imported = {}
        /\ sessions = NoSessions

\* The diagnostic of the buffer is asked for user u.
DebugBuffer(u) ==
    /\ reply' = [op |-> "debug_buffer", user_id |-> u, today |-> now,
                 body |-> debug_buffer_Calculation(u, now)]
    /\ UNCHANGED <<ledgerVars, taxonomyVars, syncVars, accountVars, next_id, now,
                   request, response, wealthVars, dispatch, authVars, utcnow,
                   goals, safe_to_spend_response>>

\* The diagnostic beside the safe-to-spend computation it explains.
NextBuffer ==
    \/ \E u \in Users : DebugBuffer(u)
    \/ \E u \in Users : SafeToSpend(u, "none")
    \/ Tick

SpecBuffer == InitBudget /\ [][NextBuffer]_vars

\* Safe-to-spend requests as the days pass.
NextBudget ==
    \/ \E u \in Users, fault \in {"none", "goals", "burden", "balance"} :
          SafeToSpend(u, fault)
    \/ \E u \in Users, fault \in {"none", "goals", "burden"} : Burden(u, fault)
    \/ Tick

SpecBudget == InitBudget /\ [][NextBudget]_vars

\* Summary requests as the days pass.
NextSummary ==
    \/ \E u \in Users, month \in 0..2, scope \in {"month", "year", "all"} :
          MonthlySummary(u, month, scope)
    \/ Tick

SpecSummary == InitBudget /\ [][NextSummary]_vars

----------------------------------------------------------------------------
(* Properties of ownership (SpecOwn)                                       *)

\* The stored records.
stored == <<transactions, merchant_mappings, bills, credit_cards, categories,
            sub_categories>>

\* User u owns a row with that id (ids are unique across the tables).
Owns(u, id) ==
    \E row \in transactions \cup bills \cup credit_cards \cup categories
                 \cup sub_categories :
        row.id = id /\ row.user_id = u

\* C4: ownership folded into existence.  Every get, update, verify,
\* toggle-settled, mark-paid, deactivate or delete request that names a row
\* the caller does not own - a row of another user, a system row or no row
\* at all - is answered 404 and leaves every stored record as it was.
C4_NotOwnedIsNotFound ==
    [][(request'.id # NoId /\ ~Owns(request'.user, request'.id)) =>
          (response' = 404 /\ UNCHANGED stored)]_vars

\* C4 witness: the last request named a bill of another user, already
\* marked paid by its owner, and was answered 404, with a second row of a
\* different owner in the database.
C4_Witness ==
    /\ response = 404
    /\ \E b \in bills :
          /\ b.id = request.id
          /\ b.user_id # request.user
          /\ b.is_paid
    /\ \E t \in transactions : t.user_id = request.user

----------------------------------------------------------------------------
(* Properties of the middleware (SpecGate) and of registration (SpecAuth)  *)

\* The header is 'Bearer <text>', possibly followed by a space and more.
BearerOf(authorization, text) ==
    \/ authorization = "Bearer " \o text
    \/ startswith(authorization, "Bearer " \o text \o " ")

\* The token is signed with the server's key and algorithm, is not past its
\* exp claim at time t and has a sub claim.
Acceptable(token, t) ==
    /\ token.key = "SECRET_KEY" /\ token.alg = "HS256"
    /\ "exp" \in DOMAIN token.payload => t <= token.payload.exp
    /\ "sub" \in DOMAIN token.payload

\* C5: a request whose path starts with a bypass prefix reaches its handler
\* whatever its Authorization header; any other request reaches the handler
\* only with a header 'Bearer <token>' whose token is validly signed,
\* unexpired and carries a subject, and is answered 401 without the handler
\* being called in every other case.
C5_GateBeforeHandler ==
    dispatch # NoDispatch =>
        LET credentials ==
                \E token \in Tokens :
                    /\ BearerOf(dispatch.authorization, token.text)
                    /\ Acceptable(token, dispatch.at)
        IN  IF \E prefix \in EXCEPTION_ROUTES :
                  Len(prefix) <= Len(dispatch.path)
                      /\ SubSeq(dispatch.path, 1, Len(prefix)) = prefix
            THEN dispatch.handler
            ELSE /\ dispatch.handler => credentials
                 /\ ~credentials =>
                        ~dispatch.handler /\ dispatch.status_code = 401

\* C5 witness: a request to /api/v1/auth/verify (not a bypass prefix, though
\* /api/v1/auth/verify-otp is) bearing a well-signed token past its exp was
\* answered 401 without reaching the handler.
C5_Witness ==
    /\ dispatch.path = "/api/v1/auth/verify"
    /\ dispatch.authorization = "Bearer early"
    /\ dispatch.at > 5
    /\ ~dispatch.handler
    /\ dispatch.status_code = 401

\* C6: registration creates the user inactive; an inactive user becomes
\* active only in a verify-otp call supplying the stored code while that
\* code has not expired (utcnow not past expires_at, set 10 minutes after
\* the registration), so a wrong or expired code leaves the user inactive;
\* re-registering an inactive email replaces the stored code and expiry;
\* an active user stays active.
C6_ActivationOnlyByOtp ==
    [][\A email \in Emails :
          LET before == user_by_email(users, email)
              after == user_by_email(users', email)
              activated == /\ \E u \in after : u.is_active
                           /\ ~\E u \in before : u.is_active
          IN  /\ before = {} => \A u \in after : ~u.is_active
              /\ activated =>
                    \E u \in before :
                        /\ auth_request' = [op |-> "verify-otp",
                                            email |-> email,
                                            secret |-> u.verification_code]
                        /\ u.verification_code \in Otps
                        /\ utcnow <= u.verification_code_expires_at
                        /\ u.verification_code_expires_at <=
                               utcnow + OtpMinutes
              /\ (/\ utcnow' = utcnow
                  /\ auth_request'.op = "register"
                  /\ auth_request'.email = email
                  /\ \E u \in before : ~u.is_active) =>
                    \A u \in after :
                        /\ ~u.is_active
                        /\ u.verification_code = auth_request'.secret
                        /\ u.verification_code_expires_at = utcnow + OtpMinutes
              /\ (\E u \in before : u.is_active) =>
                    (\E u \in after : u.is_active)]_vars

\* C6 witness: one user is active; another, whose code has expired, has
\* just been refused by verify-otp though supplying the stored code, and is
\* still inactive.
C6_Witness ==
    /\ \E u \in users : u.is_active /\ u.email = "a@x.io"
    /\ \E u \in users :
          /\ ~u.is_active
          /\ u.verification_code_expires_at < utcnow
          /\ auth_request = [op |-> "verify-otp", email |-> u.email,
                             secret |-> u.verification_code]
    /\ response = 400

----------------------------------------------------------------------------
(* Properties of safe-to-spend (SpecBudget)                                *)

\* The last exchange carries a computed answer, not the fallback returned
\* when the calculation failed.
Answered ==
    /\ safe_to_spend_response.user_id \in Users
    /\ safe_to_spend_response.body.recommendation #
           "Unable to calculate. Please check system logs."

\* The user of the last exchange has at least one transaction.
HasTransactions ==
    \E t \in transactions : t.user_id = safe_to_spend_response.user_id

\* C9 as stated: whenever the calculation computes current_balance as
\* exactly 0, the result has safe_to_spend = 0 and status "warning".
C9_ZeroBalanceWarns ==
    (Answered /\ safe_to_spend_response.body.current_balance = 0) =>
        /\ safe_to_spend_response.body.safe_to_spend = 0
        /\ safe_to_spend_response.body.status = "warning"

\* C9 amended: for a user with at least one transaction, a current_balance
\* computed as exactly 0 gives safe_to_spend = 0 and status "warning",
\* whatever the frozen funds and the buffer; for a user with no transaction
\* it gives safe_to_spend = 0 and status "success".
C9_ZeroBalanceOfKnownUserWarns ==
    (Answered /\ safe_to_spend_response.body.current_balance = 0) =>
        /\ safe_to_spend_response.body.safe_to_spend = 0
        /\ safe_to_spend_response.body.status =
               IF HasTransactions THEN "warning" ELSE "success"

\* C9 witness: a user whose liquid transactions cancel out and who has
\* frozen funds was answered safe_to_spend 0 and "warning".
C9_Witness ==
    /\ Answered
    /\ HasTransactions
    /\ \E t \in transactions : t.account_type = "SAVINGS" /\ t.amount < 0
    /\ safe_to_spend_response.body.current_balance = 0
    /\ safe_to_spend_response.body.frozen_funds.total_frozen > 0
    /\ safe_to_spend_response.body.status = "warning"

\* C10: the status is the one of the first matching rule - no transactions:
\* "success"; balance < 0: "negative"; balance = 0: "warning"; safe amount
\* = 0: "critical"; safe amount below 20% of the balance: "warning";
\* otherwise "success" - and a balance of -500 yields safe_to_spend 0,
\* "negative" and a recommendation containing 500.
C10_StatusByFirstRule ==
    Answered =>
        LET body == safe_to_spend_response.body
        IN  /\ body.status =
                  IF ~HasTransactions THEN "success"
                  ELSE IF body.current_balance < 0 THEN "negative"
                  ELSE IF body.current_balance = 0 THEN "warning"
                  ELSE IF body.safe_to_spend = 0 THEN "critical"
                  ELSE IF body.safe_to_spend * 5 < body.current_balance
                  THEN "warning"
                  ELSE "success"
            /\ body.current_balance = -500 * 3000 =>
                  /\ body.safe_to_spend = 0
                  /\ body.status = "negative"
                  /\ Contains(body.recommendation, "500")

\* C10 witness: a user 500 in deficit, with frozen funds, was answered
\* "negative".
C10_Witness ==
    /\ Answered
    /\ safe_to_spend_response.body.current_balance = -500 * 3000
    /\ safe_to_spend_response.body.frozen_funds.total_frozen > 0
    /\ safe_to_spend_response.body.status = "negative"

\* C11: in every safe-to-spend result safe_to_spend is never negative; it is
\* 0 whenever current_balance <= 0 and otherwise the larger of 0 and
\* current_balance - total_frozen - buffer; the buffer is at least 500 rupees
\* whenever current_balance > 0 and exactly 0 whenever current_balance <= 0.
C11_SafeAmountFloored ==
    safe_to_spend_response.user_id \in Users =>
        LET body == safe_to_spend_response.body
            difference == body.current_balance - body.frozen_funds.total_frozen
                              - body.buffer_amount
        IN  /\ body.safe_to_spend >= 0
            /\ body.current_balance <= 0 =>
                  body.safe_to_spend = 0 /\ body.buffer_amount = 0
            /\ body.current_balance > 0 =>
                  /\ body.safe_to_spend =
                         IF difference > 0 THEN difference ELSE 0
                  /\ body.buffer_amount >= 500 * 3000

\* C11 witness: a user with a positive balance whose frozen funds and buffer
\* exceed it was answered safe_to_spend 0.
C11_Witness ==
    /\ Answered
    /\ safe_to_spend_response.body.current_balance > 0
    /\ safe_to_spend_response.body.buffer_amount > 500 * 3000
    /\ safe_to_spend_response.body.frozen_funds.total_frozen
           + safe_to_spend_response.body.buffer_amount
           > safe_to_spend_response.body.current_balance
    /\ safe_to_spend_response.body.safe_to_spend = 0

\* The burden answered last is zero in every field.
AllZero ==
    \A f \in DOMAIN reply.body : reply.body[f] = 0

\* C12 as stated: when any sub-calculation of calculate_burden fails (unpaid
\* bills, projected surety bills, unbilled card total, goal contributions)
\* every field of the result is zero, and a user with no bills, no cards and
\* no goals gets all-zero fields.
C12_AnyFailureZeroesAll ==
    reply.op = "burden" =>
        /\ reply.fault # "none" => AllZero
        /\ (/\ \A b \in bills : b.user_id # reply.user_id
            /\ \A c \in credit_cards : c.user_id # reply.user_id
            /\ \A g \in goals : g.user_id # reply.user_id) => AllZero

\* C12 amended: calculate_burden always answers; when the unpaid-bill, the
\* projected-surety or the unbilled-card calculation fails every field is
\* zero; when only the goal query fails active_goals is zero and the other
\* fields keep their values, total_frozen being their sum; a user with no
\* bills, no cards and no goals gets all-zero fields.
C12_GoalFailureZeroesGoalsOnly ==
    reply.op = "burden" =>
        /\ response = 200
        /\ reply.fault = "burden" => AllZero
        /\ reply.fault = "goals" =>
              /\ reply.body.active_goals = 0
              /\ reply.body.unpaid_bills =
                     30 * total({b \in bills : b.user_id = reply.user_id
                                                /\ ~b.is_paid}, "amount")
              /\ reply.body.total_frozen =
                     reply.body.unpaid_bills + reply.body.projected_surety
                         + reply.body.unbilled_cc
        /\ (/\ \A b \in bills : b.user_id # reply.user_id
            /\ \A c \in credit_cards : c.user_id # reply.user_id
            /\ \A g \in goals : g.user_id # reply.user_id) => AllZero

\* C12 witness: the goal query failed for a user with an unpaid bill and an
\* active goal; the answer reports the bill and no goal contribution.
C12_Witness ==
    /\ reply.op = "burden"
    /\ reply.fault = "goals"
    /\ \E g \in goals : g.user_id = reply.user_id /\ g.is_active
    /\ reply.body.unpaid_bills > 0
    /\ reply.body.active_goals = 0
    /\ reply.body.total_frozen > 0

\* C13: in every monthly summary the balance (the sum of the signed amounts
\* of the user's transactions in the period) equals total_income minus
\* total_expense.
C13_BalanceIsIncomeMinusExpense ==
    reply.op = "summary" =>
        reply.body.balance = reply.body.total_income - reply.body.total_expense

----------------------------------------------------------------------------
(* Wealth                                                                  *)

\* C3: after any sequence of holding creation with onboarding data,
\* transaction mapping (manual or rule-matched), CAMS import and price sync,
\* no holding has two snapshots with the same captured_at date.
C3_OneSnapshotPerDay ==
    \A s \in snapshots, t \in snapshots :
        (s.holding_id = t.holding_id /\ s.captured_at = t.captured_at)
            => s.id = t.id

\* C14: running recalculate_holding_history twice in a row on the unchanged
\* snapshots of a holding gives the same units_held and total_value of every
\* snapshot and the same cached fields of the holding after the second run as
\* after the first.
C14_RecalculationIdempotent ==
    \A h \in holdings :
        \A first \in recalculate_holding_history(h.id, holdings, snapshots) :
            \A second \in recalculate_holding_history(
                              h.id, first.holdings, first.snapshots) :
                second = first

RECURSIVE sum_of_units(_, _)
\* The running sum of amount_invested_delta / price_per_unit over the first k
\* snapshots of a date-ordered sequence.
sum_of_units(ordered, k) ==
    IF k = 0 THEN 0
    ELSE sum_of_units(ordered, k - 1)
            + ordered[k].amount_invested_delta \div ordered[k].price_per_unit

\* In the tables hs and rows, holding h and its snapshots agree: taken in
\* some date order, each units_held is the running sum of delta / price,
\* each total_value is units_held times price_per_unit, total_invested is
\* the sum of the deltas and current_value the last total_value.
Recalculated(h, rows) ==
    LET mine == {s \in rows : s.holding_id = h.id}
    IN  \E ordered \in order_by_captured_at(mine) :
          /\ \A k \in 1..Len(ordered) :
                /\ ordered[k].price_per_unit > 0
                /\ ordered[k].units_held = sum_of_units(ordered, k)
                /\ ordered[k].total_value =
                       ordered[k].units_held * ordered[k].price_per_unit
          /\ h.total_invested = total(mine, "amount_invested_delta")
          /\ mine # {} => h.current_value = ordered[Len(ordered)].total_value

\* C15: after every completed transaction-mapping on a holding, the
\* holding's snapshots taken in date order have units_held equal to the
\* running sum of amount_invested_delta / price_per_unit and total_value
\* equal to units_held times price_per_unit, the holding's total_invested is
\* the sum of the snapshot deltas and its current_value the last snapshot's
\* total_value; recalculating a holding without snapshots leaves its cached
\* fields unchanged.
C15_MappingLeavesHoldingRecalculated ==
    [][/\ mapped' = mapped + 1 =>
            \A h \in holdings' :
                {s \in snapshots' : s.holding_id = h.id}
                    # {s \in snapshots : s.holding_id = h.id}
                => Recalculated(h, snapshots')
       /\ \A h \in holdings :
            (\A s \in snapshots : s.holding_id # h.id) =>
                \A r \in recalculate_holding_history(h.id, holdings, snapshots) :
                    r.holdings = holdings]_vars

\* C16: the units_held a CAMS import wrote on a snapshot stays on that
\* snapshot: no later operation on the holding replaces the statement's
\* cumulative unit count by a count re-derived from delta / price.
C16_CamsUnitsKept ==
    \A i \in imported :
        \E s \in snapshots : s.id = i.id /\ s.units_held = i.units_held

\* C17: whatever categories and sub-categories the users create and delete,
\* the category list of user U is exactly the seeded system categories plus
\* the categories U owns, with no category of another user in it; a
\* category is created under its creator's id and is removed only by a
\* request of its owner, so a system category (no owner) is never removed.
C17_CategoryListScoped ==
    /\ [](\A u \in Users :
             /\ get_categories(u) =
                    SystemCategories \cup {c \in categories : c.user_id = u}
             /\ \A c \in get_categories(u) : c.user_id \in {"", u})
    /\ [][/\ \A c \in categories' \ categories : c.user_id = request'.user
          /\ \A c \in categories \ categories' :
                 c.user_id # "" /\ c.user_id = request'.user]_vars

\* C17 witness: both users own a category and a request to delete a system
\* category has just been refused.
C17_Witness ==
    /\ \E c \in categories : c.user_id = "u1"
    /\ \E c \in categories : c.user_id = "u2"
    /\ request.id \in {c.id : c \in SystemCategories}
    /\ response = 404
    /\ SystemCategories \subseteq categories

----------------------------------------------------------------------------
(* Properties of credit cards and their purchases (SpecCards)              *)

\* C18: deactivating a credit card removes nothing.  Whatever the users do
\* with their cards, every card stored stays stored under its owner; a
\* deactivated card is missing from the owner's default (active-only) list
\* and is still what the lookup by id answers to its owner; and the step
\* that deactivates a card leaves every transaction as it was.
C18_DeactivationKeepsCard ==
    /\ [][\A c \in credit_cards :
             \E d \in credit_cards' : d.id = c.id /\ d.user_id = c.user_id]_vars
    /\ [](\A c \in credit_cards :
             ~c.is_active =>
                 /\ c \notin get_user_cards(c.user_id, TRUE)
                 /\ c \in get_user_cards(c.user_id, FALSE)
                 /\ get_card_by_id(c.id, c.user_id) = {c})
    /\ [][(\E c \in credit_cards :
              /\ c.is_active
              /\ \A d \in credit_cards' : d.id = c.id => ~d.is_active)
          => transactions' = transactions]_vars

\* C18 witness: a deactivated card with a purchase attached has just been
\* returned to its owner by GET /credit-cards/{card_id}.
C18_Witness ==
    \E c \in credit_cards :
        /\ ~c.is_active
        /\ \E t \in transactions : t.credit_card_id = c.id
        /\ request = [user |-> c.user_id, id |-> c.id]
        /\ response = 200

\* The cycle dates a card is asked with.
CycleDays == {0, 31}

\* What is owed on the cards given: the purchases numbered up to k that are
\* attached to one of them and not settled, each counted with its sign turned.
RECURSIVE owed(_, _)
owed(k, cards) ==
    IF k = 0 THEN 0
    ELSE LET open == {t \in transactions :
                         /\ t.id = k
                         /\ ~t.is_settled
                         /\ \E c \in cards : t.credit_card_id = c.id}
         IN  owed(k - 1, cards)
                 + (IF open = {} THEN 0 ELSE -(CHOOSE t \in open : TRUE).amount)

\* A transaction that is a credit-card debt.
IsCardDebt(t) == t.credit_card_id # NoId \/ t.account_type = "CREDIT_CARD"

\* C19 (unbilled amounts): whatever the cycle dates, the unbilled amount of
\* a card is what is owed on it by its unsettled purchases, and the user's
\* aggregate is what is owed on the user's active cards.
UnbilledIsOwed ==
    \A cycle_start \in CycleDays, cycle_end \in CycleDays :
        /\ \A c \in credit_cards :
              get_unbilled_amount(c.id, cycle_start, cycle_end)
                  = owed(MaxTxns, {c})
        /\ \A u \in Users :
              get_all_unbilled_for_user(u, cycle_start, cycle_end)
                  = owed(MaxTxns, {c \in credit_cards :
                                      c.user_id = u /\ c.is_active})

\* C19: after any creations, updates, deletions and toggles of
\* transactions, the unbilled amount of a card is minus the sum of its
\* attached unsettled amounts whatever their dates, the per-user aggregate
\* is the sum over the user's active cards, and is_settled changes on
\* credit-card debts only.
C19_UnbilledAndSettling ==
    /\ []UnbilledIsOwed
    /\ [][\A t \in transactions : \A d \in transactions' :
             (d.id = t.id /\ d.is_settled # t.is_settled) => IsCardDebt(t)]_vars

----------------------------------------------------------------------------
(* Properties of manual entry (SpecManual)                                 *)

\* C20: every manual creation is accepted and stores a VERIFIED, manual
\* transaction of the caller whose hash no other stored transaction has,
\* removing nothing, whatever the clock reads and whatever ingestion has
\* stored.
C20_ManualCreationAccepted ==
    [][\A u \in Users, d \in ManualInputs :
          CreateManualTransaction(u, d) =>
              /\ response' = 200
              /\ transactions \subseteq transactions'
              /\ \E t \in transactions' \ transactions :
                    /\ t.user_id = u /\ t.status = VERIFIED /\ t.is_manual
                    /\ \A o \in transactions' \ {t} :
                          o.raw_content_hash # t.raw_content_hash]_vars

----------------------------------------------------------------------------
(* Properties of transaction edits (SpecEdit)                              *)

\* C21: an update that changes the category or sub-category stores the
\* body's is_surety when the body gives one, and otherwise the surety flag
\* configured for the new sub-category.
C21_SuretyFollowsSubCategory ==
    [][\A u \in Users, tid \in TxnIds, body \in UpdateBodies :
          (/\ UpdateTransaction(u, tid, model_dump(body))
           /\ owned_transaction(tid, u) # {}
           /\ \/ the_transaction(tid, u).category # body.category
              \/ the_transaction(tid, u).sub_category # body.sub_category)
          => \A t \in transactions' :
                t.id = tid =>
                    IF "is_surety" \in DOMAIN body
                    THEN t.is_surety = body.is_surety
                    ELSE t.is_surety \in resolve_surety(body.sub_category)]_vars

----------------------------------------------------------------------------
(* Properties of the sign rule of ingestion (SpecSign)                     *)

\* C22: a message whose extracted amount is zero is passed over, storing
\* nothing and counting nothing; any other extraction of a new message is
\* prepared with a non-zero amount of the extracted size that is positive
\* exactly when the final category is Income or the type is CREDIT (so
\* negative for DEBIT and for any other type outside Income); and the
\* transaction a run stores is that amount, PENDING and not manual.
C22_SyncedSign ==
    [][\A r \in RunIds :
          /\ \A e \in SignExtractions :
                (/\ runs[r].pc = "loop" /\ runs[r].messages # <<>>
                 /\ hash_is_free(content_hash(Head(runs[r].messages)))
                 /\ SyncExtractFrom(r, {e}))
                => IF e.amount = 0
                   THEN /\ runs'[r].pc = "loop"
                        /\ runs'[r].messages = Tail(runs[r].messages)
                        /\ runs'[r].processed_count = runs[r].processed_count
                        /\ transactions' = transactions
                   ELSE /\ runs'[r].pc = "create"
                        /\ runs'[r].txn.amount # 0
                        /\ Abs(runs'[r].txn.amount) = Abs(e.amount)
                        /\ runs'[r].txn.amount > 0
                              <=> \/ runs'[r].txn.category = "Income"
                                  \/ e.transaction_type = "CREDIT"
          /\ SyncCreate(r) =>
                \A t \in transactions' \ transactions :
                    /\ t.status = PENDING /\ ~t.is_manual
                    /\ t.amount = runs[r].txn.amount /\ t.amount # 0
                    /\ t.category = runs[r].txn.category
                    /\ runs'[r].processed_count = runs[r].processed_count + 1]_vars

\* C22 witness: the run started when both messages of u1 were in the
\* mailbox has succeeded having counted one; the stored transaction is
\* PENDING, not manual and positive, the other message was passed over for
\* its zero amount.
C22_Witness ==
    /\ runs[1].pc = "done"
    /\ Len(sync_logs) = 1
    /\ sync_logs[1].status = "SUCCESS"
    /\ sync_logs[1].start_time = 1
    /\ sync_logs[1].records_processed = 1
    /\ persisted[1] = 1
    /\ Cardinality(transactions) = 1
    /\ \E t \in transactions :
          t.status = PENDING /\ ~t.is_manual /\ t.amount > 0
-----------------------------------------------------------------------------
(* Bill recurrence and billing cycles on the calendar                      *)

\* The day the schedule falls on in the month of date d.
clamped_day(day, d) == Min2(day, days_in_month(d.year, d.month))

RECURSIVE first_match_within(_, _, _)
first_match_within(day, d, horizon) ==
    IF d.day = clamped_day(day, d) \/ horizon = 0 THEN d
    ELSE first_match_within(day, tomorrow(d), horizon - 1)

\* The earliest date on or after d whose day of the month is the clamped day.
first_match(day, d) == first_match_within(day, d, 62)

\* The months of two dates are the same or consecutive.
SameOrNextMonth(d, x) ==
    \/ x.year = d.year /\ x.month = d.month
    \/ x.year = d.year /\ x.month = d.month + 1
    \/ x.year = d.year + 1 /\ d.month = 12 /\ x.month = 1

\* The clamped statement date of the month before the month of date x.
previous_statement(day, x) ==
    LET m == IF x.month = 1 THEN 12 ELSE x.month - 1
        y == IF x.month = 1 THEN x.year - 1 ELSE x.year
    IN  Date(y, m, Min2(day, days_in_month(y, m)))

\* C23: for every recurrence day 1..31 and every reference date, the next
\* occurrence is the earliest date on or after the reference date whose day of
\* the month is min(recurrence day, days in that month); it lies in the month
\* of the reference date or in the following one (December rolls over to
\* January), and day 31 asked in February gives 28 February, or 29 February in
\* a leap year.
C23_NextRecurrence ==
    reply.op = "next_recurrence" =>
        LET x == reply.body
            r == reply.reference_date
        IN  /\ x = first_match(reply.day, r)
            /\ toordinal(x) >= toordinal(r)
            /\ x.day = clamped_day(reply.day, x)
            /\ SameOrNextMonth(r, x)
            /\ (reply.day = 31 /\ r.month = 2) =>
                   x = Date(r.year, 2, IF isleap(r.year) THEN 29 ELSE 28)

\* Day 30 asked on 31 December of the first year rolls over to 30 January.
C23_Witness ==
    /\ reply.op = "next_recurrence"
    /\ reply.day = 30
    /\ reply.reference_date = Date(FirstYear, 12, 31)
    /\ reply.body = Date(FirstYear + 1, 1, 30)

\* C24: for every statement day 1..31 and every reference date the billing
\* cycle has cycle_start <= reference date <= cycle_end, cycle_end =
\* next_statement_date = the earliest clamped statement date on or after the
\* reference date, cycle_start = the day after the clamped statement date of
\* the month before, and days_until_statement = next_statement_date minus the
\* reference date, never negative and 0 exactly on the statement date; the
\* clamping is that of the bill recurrence.
C24_BillingCycle ==
    reply.op = "billing_cycle" =>
        LET c == reply.body
            r == reply.reference_date
        IN  /\ toordinal(c.cycle_start) <= toordinal(r)
            /\ toordinal(r) <= toordinal(c.cycle_end)
            /\ c.cycle_end = c.next_statement_date
            /\ c.next_statement_date = first_match(reply.day, r)
            /\ c.next_statement_date = next_recurrence(reply.day, r)
            /\ c.cycle_start =
                   tomorrow(previous_statement(reply.day, c.cycle_end))
            /\ c.days_until_statement =
                   toordinal(c.next_statement_date) - toordinal(r)
            /\ c.days_until_statement >= 0
            /\ c.days_until_statement = 0 <=> r.day = clamped_day(reply.day, r)

\* Statement day 31 asked on 1 March of the leap year: the cycle started the
\* day after 29 February and ends on 31 March.
C24_Witness ==
    /\ reply.op = "billing_cycle"
    /\ reply.day = 31
    /\ reply.reference_date = Date(LastYear, 3, 1)
    /\ reply.body.cycle_start = Date(LastYear, 3, 1)
    /\ reply.body.cycle_end = Date(LastYear, 3, 31)
    /\ reply.body.days_until_statement = 30

-----------------------------------------------------------------------------
(* The diagnostic of the discretionary buffer                              *)

\* The diagnostic lists the rows the safe-to-spend computation sums.
DebugSelectsTheSame ==
    reply.op = "debug_buffer" =>
        /\ reply.body.transactions = discretionary(reply.user_id, reply.today)
        /\ reply.body.count = Cardinality(reply.body.transactions)

\* C25: for every set of transactions of a user the diagnostic buffer
\* operation selects exactly the transactions the safe-to-spend buffer
\* computation selects, and the total it reports is the 30-day discretionary
\* total that computation uses.
C25_DebugMatchesBuffer ==
    reply.op = "debug_buffer" =>
        /\ reply.body.transactions = discretionary(reply.user_id, reply.today)
        /\ reply.body.total_discretionary_30d =
               total_discretionary_30d(reply.user_id, reply.today)

-----------------------------------------------------------------------------
(* Tokens issued by verify-otp                                             *)

\* C26: verify-otp issues a bearer token for an email only when the submitted
\* code is the verification code stored for that user at that moment and the
\* code has not expired; a wrong, expired or arbitrary code never returns a
\* token, whatever state the account is in.
C26_TokenOnlyForStoredCode ==
    [][\A email \in Emails, otp \in Otps :
          (VerifyOtp(email, otp) /\ response' = 200) =>
              \E user \in user_by_email(users, email) :
                  /\ user.verification_code # NoCode
                  /\ user.verification_code = otp
                  /\ ~otp_expired(user, utcnow)]_vars

-----------------------------------------------------------------------------
(* Ownership in map-transaction                                            *)

\* C27: map-transaction changes a holding (its snapshots, its cached totals,
\* the mapping rules) only when the transaction and the holding it names both
\* belong to the authenticated caller; a caller naming a transaction or a
\* holding of another user changes nothing.
C27_MapOnlyOwn ==
    [][\A current_user \in Users, payload \in MapTransactionRequests,
          quote \in Quotes :
          (/\ map_transaction(current_user, payload, quote)
           /\ <<holdings, snapshots, mapping_rules>>' #
                  <<holdings, snapshots, mapping_rules>>)
          => /\ \E t \in transactions :
                    t.id = payload.transaction_id /\ t.user_id = current_user
             /\ \E h \in holdings :
                    h.id = payload.holding_id /\ h.user_id = current_user]_vars

-----------------------------------------------------------------------------
(* Two mapping events on one holding in separate sessions                  *)

\* One mapping event run from its first query to its commit with no other
\* session in between, on the committed tables db: the possible results.
mapped_alone(db, event) ==
    LET t == CHOOSE x \in transactions : x.id = event.transaction_id
    IN  UNION {IF begun.pc = "loaded"
               THEN {session_commit(db, redone) :
                        redone \in session_recalculate(db, begun, now)}
               ELSE {db} :
                  begun \in session_load(db, t, event.holding_id, event.quote,
                                          now)}

\* The events of sessions a and b run one after the other on db.
serial(db, a, b) ==
    UNION {mapped_alone(after, sessions.open[b]) :
              after \in mapped_alone(db, sessions.open[a])}

\* Rows without the ids the INSERT gave them.
unnamed(rows) == {[f \in DOMAIN r \ {"id"} |-> r[f]] : r \in rows}

\* Two states of the tables hold the same holdings and the same snapshots.
same_tables(d, e) ==
    /\ d.holdings = e.holdings
    /\ unnamed(d.snapshots) = unnamed(e.snapshots)
    /\ Cardinality(d.snapshots) = Cardinality(e.snapshots)

\* Both requests have been answered.
BothDone == \A i \in SessionIds : sessions.open[i].pc = "done"

\* When both events have completed the tables are those of one of the two
\* serial orders.
RaceIsSerial ==
    BothDone =>
        \E a \in SessionIds : \E b \in SessionIds \ {a} :
            \E d \in serial(sessions.base, a, b) : same_tables(database, d)

-----------------------------------------------------------------------------
(* Messages under repeated sync runs                                       *)

\* Message m of the mailbox of u1 has arrived.
Arrived(m) == m.internalDate <= now

\* Message m is stored as a transaction.
Persisted(m) ==
    \E t \in transactions : t.raw_content_hash = content_hash(m)

\* C29: under repeated sync runs of a connected user every mailbox message
\* that matches the keyword filter and carries a non-zero amount is eventually
\* persisted as a transaction: a message one run left unprocessed is returned
\* again by the query of a later run.
C29_MessagesEventuallyPersisted ==
    \A m \in Mailbox["u1"] : Arrived(m) ~> Persisted(m)

\* What ingestion stores for the answer e of call_brain_api when no mapping
\* is stored: the extracted category, sub-category and the sign that
\* category gives.
stored_as_extracted(t, e) ==
    /\ t.category = e.category
    /\ t.sub_category = e.sub_category
    /\ (t.amount < 0) = (signed_amount(e, e.category) < 0)

\* The ingested transactions of u1 are stored as they are in the executions
\* where u2 verifies nothing (the answers of call_brain_api are told apart
\* by their merchant, which ingestion stores unchanged).
IngestedAsExtracted ==
    \A t \in transactions :
        (t.user_id = "u1" /\ ~t.is_manual) =>
            \A e \in PaidExtractions :
                e.merchant_name = t.merchant_name => stored_as_extracted(t, e)

\* C30: operations of one user never influence what is stored for another:
\* executions that differ only in u2's verify operations persist the same
\* category, sub-category and amount sign for the messages u1 ingests
\* afterwards, so in SpecApart, where u1 verifies nothing, they are the ones
\* the executions without u2's verifications (SpecUnverified) persist.
C30_OtherUsersVerifyApart ==
    IngestedAsExtracted


=============================================================================
